---- MODULE Spec2Model ----
(***************************************************************************)
(* Model of the keykey firmware core: the wear-levelled flash              *)
(* configuration store (keykey/src/flash.rs), the two-interface HID class  *)
(* (keykey/src/keyboard.rs) and the scan / USB tasks (keykey/src/main.rs). *)
(***************************************************************************)
EXTENDS Integers, Sequences, FiniteSets, TLC

VARIABLES
    flash,      \* the config page: [CONFIG_ADD .. FLASH_END-1 -> byte]
    beyond,     \* what a read of the byte at FLASH_END yields on this hardware
    cr,         \* FLASH_CR bits: [lock, per, pg]
    last_valid_index,   \* ConfigWriter.last_valid_index
    power,      \* "off" | "on" | "panic"
    layout,     \* Matrix.layout, three key codes
    q_buf,      \* the ring of the command queue Q
    q_head,     \* consumer index of Q
    q_tail,     \* producer index of Q
    pc,         \* position of debouncer_task
    loc,        \* locals of debouncer_task: [head, cmd, report]
    btn,        \* debounced state of each button
    report,     \* Keykey.report
    expect_interrupt_in_complete,   \* Keykey.expect_interrupt_in_complete
    ep_tx,      \* packet queued on the keyboard interrupt-IN endpoint, <<>> if none
    ep_enabled, \* the bus has been reset and the endpoints are configured
    host_rx,    \* the last report the host has taken since init, <<>> if none
    last,       \* the last operation with its inputs and outcome
    hist        \* history: commands accepted, commands dequeued, budgets;
                \* the App of the host utility in its own specification

vars == <<flash, beyond, cr, last_valid_index, power, layout, q_buf, q_head,
          q_tail, pc, loc, btn, report, expect_interrupt_in_complete, ep_tx,
          ep_enabled, host_rx, last, hist>>

storeVars == <<flash, cr, last_valid_index>>
queueVars == <<q_buf, q_head, q_tail>>
hidVars == <<report, expect_interrupt_in_complete, ep_tx, ep_enabled, host_rx>>

----------------------------------------------------------------------------
(* Program constants, flash.rs / main.rs / lib.rs *)

FLASH_START == 134217728
PAGE_SIZE == 1024
FLASH_SIZE_KB == 64
FLASH_END == FLASH_START + FLASH_SIZE_KB * PAGE_SIZE
CONFIG_ADD == FLASH_START + (FLASH_SIZE_KB - 1) * PAGE_SIZE
MAGIC == 85
NUM_BTS == 3
\* ((NUM_BTS + 1) + 1) & !1
CONFIG_SIZE == (((NUM_BTS + 1) + 1) \div 2) * 2
CONFIGS_IN_PAGE == PAGE_SIZE \div CONFIG_SIZE
CTRL_INTERFACE == 1
KEY_INTERFACE == 0
QUEUE_CAP == 8

\* keylib::key_code::valid_ranges
ZONE1_FIRST == 0
ZONE1_LAST == 164
ZONE2_FIRST == 224
ZONE2_LAST == 251

\* KeyCode discriminants used by the firmware and the scenarios
KeyCode_A == 4
KeyCode_B == 5
KeyCode_C == 6
KeyCode_Space == 44

Byte == 0..255
ERASED == 255

None == <<>>
Some(x) == <<x>>

PageAddrs == CONFIG_ADD..(FLASH_END - 1)
ErasedPage == [a \in PageAddrs |-> ERASED]

----------------------------------------------------------------------------
(* Matrix: keyboard.rs *)

\* Matrix::new
Matrix_new == <<KeyCode_A, KeyCode_B, KeyCode_C>>

\* A to_bytes that keeps seven bits of each discriminant
Matrix_to_bytes_7bit(m) == [i \in 1..NUM_BTS |-> m[i] % 128]

\* Matrix::to_bytes: each KeyCode is its repr(u8) discriminant
Matrix_to_bytes(m) == [i \in 1..NUM_BTS |-> m[i] % 256]

\* The test for invalid codes without the gap between the zones
InvalidCode_no_gap(code) == code < ZONE1_FIRST \/ code > ZONE2_LAST

InvalidCode(code) ==
    \/ code < ZONE1_FIRST
    \/ (code > ZONE1_LAST /\ code < ZONE2_FIRST)
    \/ code > ZONE2_LAST

\* from_bytes without the look for invalid codes
Matrix_from_bytes_unchecked(bytes) == Some([i \in 1..NUM_BTS |-> bytes[i]])

\* Matrix::from_bytes
Matrix_from_bytes(bytes) ==
    IF \E i \in 1..NUM_BTS : InvalidCode(bytes[i])
    THEN None
    ELSE Some([i \in 1..NUM_BTS |-> bytes[i]])

\* KeyCode::try_from(u8): Ok exactly for the discriminants of the enum
KeyCode_try_from(b) == IF InvalidCode(b) THEN None ELSE Some(b)

----------------------------------------------------------------------------
(* Flash hardware as the driver sees it *)

\* ptr::read_volatile(addr as *const u8)
Rd8(f, a) == IF a \in PageAddrs THEN f[a] ELSE beyond

\* ptr::read_volatile(addr as *const u16), little endian
Rd16(f, a) == Rd8(f, a) + 256 * Rd8(f, a + 1)

NoFault == [er |-> "none", wr |-> "none", at |-> 0]

EraseFaults == {"none", "unlock", "wrprt", "verify"}
WriteFaults == {"none", "unlock", "wrprt", "verify"}
HalfWords == 0..((CONFIG_SIZE \div 2) - 1)

HwFaults == [er : EraseFaults, wr : WriteFaults, at : HalfWords]

Locked == [lock |-> TRUE, per |-> FALSE, pg |-> FALSE]

\* ConfigWriter::unlock: the key sequence clears the lock bit unless the
\* controller refuses it
unlock(c, fault) ==
    IF fault = "unlock"
    THEN [res |-> "UnlockError", cr |-> [c EXCEPT !.lock = TRUE]]
    ELSE [res |-> "Ok", cr |-> [c EXCEPT !.lock = FALSE]]

\* A lock that leaves the control register as it is
lock_skipped(c) == c

\* ConfigWriter::lock
lock(c) == [c EXCEPT !.lock = TRUE]

\* ConfigWriter::valid_range
valid_range(start, length) ==
    (start >= CONFIG_ADD) /\ (start + length < FLASH_END)

\* ConfigWriter::read: the bytes of the range, or WrongRange
read(f, start, length) ==
    IF valid_range(start, length)
    THEN [res |-> "Ok", data |-> [i \in 1..length |-> Rd8(f, start + i - 1)]]
    ELSE [res |-> "WrongRange", data |-> <<>>]

\* The page after the hardware erase: all 0xFF, unless the erase is refused
\* (write protection) or leaves a half-word of slot 0 not erased.
HwErase(f, fault, at) ==
    CASE fault = "wrprt" -> f
      [] fault = "verify" -> [ErasedPage EXCEPT ![CONFIG_ADD + 2 * at] = 0]
      [] OTHER -> ErasedPage

\* ConfigWriter::erase_page
erase_page(f, c, fault, at) ==
    LET u == unlock(c, fault) IN
    IF u.res # "Ok" THEN [res |-> u.res, flash |-> f, cr |-> u.cr]
    ELSE
      LET f2 == HwErase(f, fault, at)
          \* per set, strt, busy wait, per cleared, re-locked
          c2 == lock([u.cr EXCEPT !.per = FALSE])
      IN
      IF fault = "wrprt" THEN [res |-> "EraseError", flash |-> f2, cr |-> c2]
      ELSE IF \E address \in CONFIG_ADD..(CONFIG_ADD + PAGE_SIZE - 1) :
                 Rd16(f2, address) # 65535
           THEN [res |-> "VerificationError", flash |-> f2, cr |-> c2]
           ELSE [res |-> "Ok", flash |-> f2, cr |-> c2]

\* One half-word programmed by the hardware at addr: the controller raises
\* PGERR and programs nothing when the half-word is not erased; a marginal
\* cell ("verify") reads back 0 instead of the value written.
HwProgram(f, addr, hword, fault) ==
    IF fault = "wrprt" \/ Rd16(f, addr) # 65535
    THEN [err |-> TRUE, flash |-> f]
    ELSE LET v == IF fault = "verify" THEN 0 ELSE hword IN
         [err |-> FALSE,
          flash |-> [f EXCEPT ![addr] = v % 256, ![addr + 1] = v \div 256]]

\* The loop of ConfigWriter::write from half-word k on
RECURSIVE write_from(_, _, _, _, _, _, _)
write_from(f, c, start, data, k, fault, at) ==
    IF 2 * k >= Len(data)
    THEN [res |-> "Ok", flash |-> f, cr |-> lock(c)]
    ELSE
      LET addr == start + 2 * k
          hword == data[2 * k + 1] + 256 * data[2 * k + 2]
          p == HwProgram(f, addr, hword, IF k = at THEN fault ELSE "none")
          \* pg set before the half-word, cleared after the busy wait
          c2 == [[c EXCEPT !.pg = TRUE] EXCEPT !.pg = FALSE]
      IN
      IF p.err
      THEN [res |-> "ProgrammingError", flash |-> p.flash, cr |-> lock(c2)]
      ELSE IF Rd16(p.flash, addr) # hword
           THEN [res |-> "VerificationError", flash |-> p.flash, cr |-> lock(c2)]
           ELSE write_from(p.flash, c2, start, data, k + 1, fault, at)

\* ConfigWriter::write
write(f, c, start, data, fault, at) ==
    IF ~valid_range(start, Len(data)) \/ Len(data) % 2 # 0
    THEN [res |-> "WrongRange", flash |-> f, cr |-> c]
    ELSE
      LET u == unlock(c, fault) IN
      IF u.res # "Ok" THEN [res |-> u.res, flash |-> f, cr |-> u.cr]
      ELSE write_from(f, u.cr, start, data, 0, fault, at)

\* ConfigWriter::matrix_to_config
matrix_to_config(m) ==
    [i \in 1..CONFIG_SIZE |->
        IF i = 1 THEN MAGIC
        ELSE IF i <= NUM_BTS + 1 THEN Matrix_to_bytes(m)[i - 1] ELSE 0]

SlotAddr(i) == CONFIG_ADD + i * CONFIG_SIZE

\* ConfigWriter::write_default
\* A write_default that erases the page and writes no entry
write_default_erase_only(f, c, lvi, hw) ==
    LET e == erase_page(f, c, hw.er, hw.at) IN
    [res |-> e.res, flash |-> e.flash, cr |-> e.cr,
     lvi |-> IF e.res = "Ok" THEN 0 ELSE lvi]

write_default(f, c, lvi, hw) ==
    LET e == erase_page(f, c, hw.er, hw.at) IN
    IF e.res # "Ok"
    THEN [res |-> e.res, flash |-> e.flash, cr |-> e.cr, lvi |-> lvi]
    ELSE
      LET w == write(e.flash, e.cr, CONFIG_ADD, matrix_to_config(Matrix_new),
                     hw.wr, hw.at)
      IN [res |-> w.res, flash |-> w.flash, cr |-> w.cr,
          lvi |-> IF w.res = "Ok" THEN 0 ELSE lvi]

\* The walk of ConfigWriter::new over slots 1..CONFIGS_IN_PAGE-1: the index
\* before the first slot that does not start with the magic
last_magic(f) ==
    LET stop == {idx \in 1..(CONFIGS_IN_PAGE - 1) : Rd8(f, SlotAddr(idx)) # MAGIC}
    IN IF stop = {} THEN CONFIGS_IN_PAGE - 1
       ELSE (CHOOSE idx \in stop : \A j \in stop : idx <= j) - 1

\* ConfigWriter::new
ConfigWriter_new(f, c, hw) ==
    IF Rd8(f, CONFIG_ADD) # MAGIC
    THEN write_default(f, c, 0, hw)
    ELSE [res |-> "Ok", flash |-> f, cr |-> c, lvi |-> last_magic(f)]

\* ConfigWriter::get_config
get_config(f, lvi) ==
    LET last_addr == SlotAddr(lvi)
        config == read(f, last_addr + 1, CONFIG_SIZE - 1)
    IN IF config.res # "Ok" THEN None
       ELSE Matrix_from_bytes([i \in 1..NUM_BTS |-> config.data[i]])

\* A write_config that starts over on an erased page at every call
write_config_erase_first(f, c, lvi, m, hw) ==
    LET e == erase_page(f, c, hw.er, hw.at) IN
    IF e.res # "Ok"
    THEN [res |-> e.res, flash |-> e.flash, cr |-> e.cr, lvi |-> lvi]
    ELSE
      LET w == write(e.flash, e.cr, CONFIG_ADD, matrix_to_config(m),
                     hw.wr, hw.at)
      IN [res |-> w.res, flash |-> w.flash, cr |-> w.cr,
          lvi |-> IF w.res = "Ok" THEN 0 ELSE lvi]

\* A write_config that does not look at the next slot before it writes
write_config_unchecked(f, c, lvi, m, hw) ==
    LET config == matrix_to_config(m) IN
    IF lvi + 1 < CONFIGS_IN_PAGE
    THEN
      LET w == write(f, c, SlotAddr(lvi + 1), config, hw.wr, hw.at) IN
      [res |-> w.res, flash |-> w.flash, cr |-> w.cr,
       lvi |-> IF w.res = "Ok" THEN lvi + 1 ELSE lvi]
    ELSE write_config_erase_first(f, c, lvi, m, hw)

\* ConfigWriter::write_config
write_config(f, c, lvi, m, hw) ==
    LET config == matrix_to_config(m) IN
    IF lvi + 1 < CONFIGS_IN_PAGE
    THEN
      LET next_addr == SlotAddr(lvi + 1) IN
      IF Rd8(f, next_addr) # 255
      THEN [res |-> "FlashNotErased", flash |-> f, cr |-> c, lvi |-> lvi]
      ELSE
        LET w == write(f, c, next_addr, config, hw.wr, hw.at) IN
        [res |-> w.res, flash |-> w.flash, cr |-> w.cr,
         lvi |-> IF w.res = "Ok" THEN lvi + 1 ELSE lvi]
    ELSE
      LET e == erase_page(f, c, hw.er, hw.at) IN
      IF e.res # "Ok"
      THEN [res |-> e.res, flash |-> e.flash, cr |-> e.cr, lvi |-> lvi]
      ELSE
        LET w == write(e.flash, e.cr, CONFIG_ADD, config, hw.wr, hw.at) IN
        [res |-> w.res, flash |-> w.flash, cr |-> w.cr,
         lvi |-> IF w.res = "Ok" THEN 0 ELSE lvi]

----------------------------------------------------------------------------
(* keylib::packets and the HID class, keyboard.rs *)

KEY_EP == 129
DUMMY_EP == 130
REPORT_LEN == 8

\* Request::new
Request_new(u) ==
    CASE u = 1 -> Some("GetReport")
      [] u = 2 -> Some("GetIdle")
      [] u = 3 -> Some("GetProtocol")
      [] u = 9 -> Some("SetReport")
      [] u = 10 -> Some("SetIdle")
      [] u = 11 -> Some("SetProtocol")
      [] OTHER -> None

\* VendorCommand::try_from(u8), derived by TryFromPrimitive
VendorCommand_try_from(b) ==
    CASE b = 1 -> Some("Set1")
      [] b = 2 -> Some("Set2")
      [] b = 3 -> Some("Set3")
      [] b = 4 -> Some("Save")
      [] b = 70 -> Some("GetOSFeature")
      [] OTHER -> None

\* AppCommand::from_req_value
AppCommand_from_req_value(req, value) ==
    CASE req = "Set1" -> Some([cmd |-> "Set1", key |-> value])
      [] req = "Set2" -> Some([cmd |-> "Set2", key |-> value])
      [] req = "Set3" -> Some([cmd |-> "Set3", key |-> value])
      [] req = "Save" -> Some([cmd |-> "Save", key |-> 0])
      [] OTHER -> None

\* An enqueue that never finds the ring full
Producer_enqueue_unbounded(buf, head, tail, item) ==
    [ok |-> TRUE,
     buf |-> [buf EXCEPT ![tail % QUEUE_CAP] = Some(item)],
     tail |-> tail + 1]

\* Producer::enqueue on the ring of QUEUE_CAP slots: Err when full
Producer_enqueue(buf, head, tail, item) ==
    IF tail - head > QUEUE_CAP - 1
    THEN [ok |-> FALSE, buf |-> buf, tail |-> tail]
    ELSE [ok |-> TRUE,
          buf |-> [buf EXCEPT ![tail % QUEUE_CAP] = Some(item)],
          tail |-> tail + 1]

\* The commands in the queue, oldest first
RECURSIVE QueueSeq(_, _, _)
QueueSeq(buf, head, tail) ==
    IF head >= tail THEN <<>>
    ELSE <<buf[head % QUEUE_CAP][1]>> \o QueueSeq(buf, head + 1, tail)

\* A control_out that looks at the low byte of wIndex only
control_out_low_index(req, data, buf, head, tail) ==
    LET refused == [accepted |-> FALSE, buf |-> buf, tail |-> tail] IN
    IF /\ req.request_type = "Class"
       /\ req.recipient = "Interface"
       /\ req.index % 256 = CTRL_INTERFACE
       /\ Request_new(req.request) = Some("SetReport")
       /\ Len(data) = 2
       /\ VendorCommand_try_from(data[1]) # None
       /\ KeyCode_try_from(data[2]) # None
       /\ AppCommand_from_req_value(VendorCommand_try_from(data[1])[1],
                                    KeyCode_try_from(data[2])[1]) # None
    THEN
      LET e == Producer_enqueue(buf, head, tail,
                 AppCommand_from_req_value(VendorCommand_try_from(data[1])[1],
                                           KeyCode_try_from(data[2])[1])[1])
      IN [accepted |-> e.ok, buf |-> e.buf, tail |-> e.tail]
    ELSE refused

\* Keykey::control_out: whether the transfer is accepted, and the queue after
control_out(req, data, buf, head, tail) ==
    LET refused == [accepted |-> FALSE, buf |-> buf, tail |-> tail] IN
    IF /\ req.request_type = "Class"
       /\ req.recipient = "Interface"
       /\ req.index = CTRL_INTERFACE
    THEN
      IF Request_new(req.request) = Some("SetReport") /\ Len(data) = 2
      THEN
        LET cmd == VendorCommand_try_from(data[1])
            key == KeyCode_try_from(data[2])
        IN
        IF cmd # None /\ key # None
        THEN
          LET app == AppCommand_from_req_value(cmd[1], key[1]) IN
          IF app = None THEN refused
          ELSE
            LET e == Producer_enqueue(buf, head, tail, app[1]) IN
            [accepted |-> e.ok, buf |-> e.buf, tail |-> e.tail]
        ELSE refused
      ELSE refused
    ELSE refused

\* What endpoint_interrupt_in.write(data) can return: WouldBlock while a
\* packet is still queued or the endpoint is not yet configured, an error for
\* a packet larger than the endpoint
EpWriteOutcomes(tx, data) ==
    IF tx # <<>> THEN {"WouldBlock"}
    ELSE IF Len(data) > REPORT_LEN THEN {"Err"}
    ELSE IF ep_enabled THEN {"Ok"}
    ELSE {"WouldBlock"}

\* A write that goes to the endpoint whatever the flag says
Keykey_write_unguarded(flag, data, epres) ==
    LET flag2 == IF Len(data) >= 8 THEN TRUE ELSE flag IN
    CASE epres = "Ok" ->
           [ret |-> "Ok", count |-> Len(data), flag |-> flag2,
            called |-> TRUE, queued |-> TRUE]
      [] epres = "WouldBlock" ->
           [ret |-> "Ok", count |-> 0, flag |-> flag2,
            called |-> TRUE, queued |-> FALSE]
      [] OTHER ->
           [ret |-> "Err", count |-> 0, flag |-> flag2,
            called |-> TRUE, queued |-> FALSE]

\* Keykey::write, given what the endpoint write returns if it is reached
Keykey_write(flag, data, epres) ==
    IF flag
    THEN [ret |-> "Ok", count |-> 0, flag |-> flag, called |-> FALSE, queued |-> FALSE]
    ELSE
      LET flag2 == IF Len(data) >= 8 THEN TRUE ELSE flag IN
      CASE epres = "Ok" ->
             [ret |-> "Ok", count |-> Len(data), flag |-> flag2,
              called |-> TRUE, queued |-> TRUE]
        [] epres = "WouldBlock" ->
             [ret |-> "Ok", count |-> 0, flag |-> flag2,
              called |-> TRUE, queued |-> FALSE]
        [] OTHER ->
             [ret |-> "Err", count |-> 0, flag |-> flag2,
              called |-> TRUE, queued |-> FALSE]

\* A set_keyboard_report that calls every report a new one
set_keyboard_report_always(cur, new) == [changed |-> TRUE, report |-> new]

\* Keykey::set_keyboard_report
set_keyboard_report(cur, new) ==
    IF new = cur THEN [changed |-> FALSE, report |-> cur]
    ELSE [changed |-> TRUE, report |-> new]

\* A completion handler that does not look at the endpoint address
endpoint_in_complete_any(flag, addr) == FALSE

\* Keykey::endpoint_in_complete
endpoint_in_complete(flag, addr) == IF addr = KEY_EP THEN FALSE ELSE flag

\* Keykey::reset
reset(flag) == FALSE

\* KEY_REPORT_DESCRIPTOR, byte for byte
KEY_REPORT_DESCRIPTOR ==
    <<5, 1,  9, 6,  161, 1,  5, 7,  25, 224,  41, 231,  21, 0,  37, 1,
      117, 1,  149, 8,  129, 2,  149, 1,  117, 8,  129, 3,  149, 6,
      117, 8,  21, 0,  38, 251, 0,  5, 7,  25, 0,  41, 251,  129, 0,  192>>

\* CTRL_REPORT_DESCRIPTOR, byte for byte
CTRL_REPORT_DESCRIPTOR ==
    <<6, 0, 255,  9, 1,  161, 1,  9, 1,  21, 0,  38, 255, 0,  117, 8,
      149, 2,  177, 2,  192>>

SPECIFICATION_RELEASE == 273
INTERFACE_CLASS_HID == 3
SUBCLASS_NONE == 0
KEYBOARD_PROTOCOL == 1
DescriptorType_Hid == 33
DescriptorType_Report == 34
\* control::Request::GET_DESCRIPTOR
GET_DESCRIPTOR == 6

\* ReportType::from(u8)
ReportType_from(val) ==
    CASE val = 1 -> "Input"
      [] val = 2 -> "Output"
      [] val = 3 -> "Feature"
      [] OTHER -> "Reserved"

\* The first n elements of a sequence
Take(seq, n) == SubSeq(seq, 1, IF n < Len(seq) THEN n ELSE Len(seq))

\* What a control IN handler did with the transfer
NotForUs == [outcome |-> "none", data |-> <<>>]
Rejected == [outcome |-> "reject", data |-> <<>>]
AcceptedWith(d) == [outcome |-> "accept", data |-> d]

\* A get_report that answers whatever length the host asks for
get_report_any_length(req, rep) ==
    LET report_type == ReportType_from(req.value \div 256)
        interface == req.index % 256
    IN
    IF interface # KEY_INTERFACE /\ interface # CTRL_INTERFACE THEN NotForUs
    ELSE IF report_type \in {"Input", "Feature"}
         THEN AcceptedWith(IF interface = KEY_INTERFACE THEN rep
                           ELSE [i \in 1..8 |-> 0])
         ELSE Rejected

\* Keykey::get_report, rep being self.report
get_report(req, rep) ==
    LET report_type == ReportType_from(req.value \div 256)
        interface == req.index % 256
        response == IF interface = KEY_INTERFACE THEN Some(rep)
                    ELSE IF interface = CTRL_INTERFACE THEN Some([i \in 1..8 |-> 0])
                    ELSE None
    IN
    IF response = None THEN NotForUs
    ELSE IF req.length < Len(response[1]) THEN Rejected
    ELSE IF report_type \in {"Input", "Feature"} THEN AcceptedWith(response[1])
    ELSE Rejected

\* Request::descriptor_type_index: both halves of wValue
descriptor_type_index(req) == <<req.value \div 256, req.value % 256>>

\* Keykey::control_in
control_in(req, rep) ==
    IF req.request_type = "Standard" /\ req.recipient = "Interface"
    THEN
      IF req.request = GET_DESCRIPTOR
      THEN
        LET desc_type == descriptor_type_index(req)[1]
            iface == descriptor_type_index(req)[2]
        IN
        IF desc_type = DescriptorType_Report
        THEN
          IF iface = KEY_INTERFACE
          THEN AcceptedWith(Take(KEY_REPORT_DESCRIPTOR, req.length))
          ELSE IF iface = CTRL_INTERFACE
          THEN AcceptedWith(Take(CTRL_REPORT_DESCRIPTOR, req.length))
          ELSE NotForUs
        ELSE NotForUs
      ELSE NotForUs
    ELSE IF req.request_type = "Class" /\ req.recipient = "Interface"
    THEN
      IF Request_new(req.request) = Some("GetReport")
      THEN get_report(req, rep)
      ELSE NotForUs
    ELSE NotForUs

\* A class descriptor that announces the length of the boot keyboard
\* descriptor with LED outputs
HidClassDescriptor_boot(desc) ==
    [type |-> DescriptorType_Hid,
     bytes |-> <<SPECIFICATION_RELEASE % 256, SPECIFICATION_RELEASE \div 256,
                 0, 1, DescriptorType_Report, 63, 0>>]

\* The class-specific HID descriptor written for a report descriptor
HidClassDescriptor(desc) ==
    [type |-> DescriptorType_Hid,
     bytes |-> <<SPECIFICATION_RELEASE % 256, SPECIFICATION_RELEASE \div 256,
                 0, 1, DescriptorType_Report,
                 Len(desc) % 256, Len(desc) \div 256>>]

\* Keykey::get_configuration_descriptors: what goes to the writer, in order
get_configuration_descriptors ==
    << [type |-> "interface", number |-> KEY_INTERFACE,
        class |-> INTERFACE_CLASS_HID, subclass |-> SUBCLASS_NONE,
        protocol |-> KEYBOARD_PROTOCOL],
       HidClassDescriptor(KEY_REPORT_DESCRIPTOR),
       [type |-> "endpoint", address |-> KEY_EP],
       [type |-> "interface", number |-> CTRL_INTERFACE,
        class |-> INTERFACE_CLASS_HID, subclass |-> SUBCLASS_NONE,
        protocol |-> 0],
       HidClassDescriptor(CTRL_REPORT_DESCRIPTOR),
       [type |-> "endpoint", address |-> DUMMY_EP] >>

\* debouncer::BtnState
BtnStates == {"UnPressed", "ChangedToPressed", "Repeat", "ChangedToUnpressed"}

\* KbHidReport::new
KbHidReport_new == [i \in 1..REPORT_LEN |-> 0]

\* KbHidReport::pressed: the key code goes to the first free key byte
KbHidReport_pressed(r, kc) ==
    LET free == {i \in 3..REPORT_LEN : r[i] = 0} IN
    IF kc = 0 \/ free = {} THEN r
    ELSE [r EXCEPT ![CHOOSE i \in free : \A j \in free : i <= j] = kc]

\* A Matrix::update that counts a key only in the tick of its press
RECURSIVE Matrix_update_from_edge(_, _, _, _)
Matrix_update_from_edge(m, states, index, r) ==
    IF index >= NUM_BTS THEN r
    ELSE Matrix_update_from_edge(m, states, index + 1,
            IF states[index] = "ChangedToPressed"
            THEN KbHidReport_pressed(r, m[index + 1]) ELSE r)

\* Matrix::update over the debounced states
RECURSIVE Matrix_update_from(_, _, _, _)
Matrix_update_from(m, states, index, r) ==
    IF index >= NUM_BTS THEN r
    ELSE Matrix_update_from(m, states, index + 1,
            IF states[index] # "UnPressed"
            THEN KbHidReport_pressed(r, m[index + 1]) ELSE r)

Matrix_update(m, states) == Matrix_update_from(m, states, 0, KbHidReport_new)

\* Matrix::update_layout
\* An update_layout that also writes the mapping to flash on a SetSlot
update_layout_persisting(m, command, f, c, lvi, hw) ==
    LET m2 == IF command.cmd = "Set1" THEN [m EXCEPT ![1] = command.key]
              ELSE IF command.cmd = "Set2" THEN [m EXCEPT ![2] = command.key]
              ELSE IF command.cmd = "Set3" THEN [m EXCEPT ![3] = command.key]
              ELSE m
        w == write_config(f, c, lvi, m2, hw)
    IN [res |-> w.res, layout |-> m2, flash |-> w.flash, cr |-> w.cr,
        lvi |-> w.lvi]

update_layout(m, command, f, c, lvi, hw) ==
    CASE command.cmd = "Set1" ->
           [res |-> "Ok", layout |-> [m EXCEPT ![1] = command.key],
            flash |-> f, cr |-> c, lvi |-> lvi]
      [] command.cmd = "Set2" ->
           [res |-> "Ok", layout |-> [m EXCEPT ![2] = command.key],
            flash |-> f, cr |-> c, lvi |-> lvi]
      [] command.cmd = "Set3" ->
           [res |-> "Ok", layout |-> [m EXCEPT ![3] = command.key],
            flash |-> f, cr |-> c, lvi |-> lvi]
      [] OTHER ->
           LET w == write_config(f, c, lvi, m, hw) IN
           [res |-> w.res, layout |-> m, flash |-> w.flash, cr |-> w.cr,
            lvi |-> w.lvi]


----------------------------------------------------------------------------
(* Bounds of the model *)

\* store operations per run of the store specification
MaxWrites == 3

\* initial pages hold 0..FillEdge entries, or all but 0..FillEdge entries
FillEdge == 2
InitFills == (0..FillEdge) \cup ((CONFIGS_IN_PAGE - FillEdge)..CONFIGS_IN_PAGE)

\* Mappings handed to write_config
StoreMaps == {Matrix_new,
              <<KeyCode_Space, KeyCode_B, KeyCode_C>>,
              <<MAGIC, ZONE1_LAST, ZONE2_LAST>>}

\* A page whose first n slots hold committed entries of mapping m
FilledPage(n, m) ==
    [a \in PageAddrs |->
        IF a - CONFIG_ADD < n * CONFIG_SIZE
        THEN matrix_to_config(m)[((a - CONFIG_ADD) % CONFIG_SIZE) + 1]
        ELSE ERASED]

\* What the hardware may return for the byte at FLASH_END
BeyondVals == {ERASED, 0}

NoOp == [op |-> "none", m |-> None, hw |-> NoFault, res |-> "none", lvi0 |-> 0]

\* Everything but the store, as it is before init runs
InitRest ==
    /\ power = "off"
    /\ layout = Matrix_new
    /\ q_buf = [i \in 0..(QUEUE_CAP - 1) |-> None]
    /\ q_head = 0
    /\ q_tail = 0
    /\ pc = "idle"
    /\ loc = [head |-> 0, cmd |-> None, report |-> KbHidReport_new]
    /\ btn = [i \in 0..(NUM_BTS - 1) |-> "UnPressed"]
    /\ report = KbHidReport_new
    /\ expect_interrupt_in_complete = FALSE
    /\ ep_tx = <<>>
    /\ ep_enabled = FALSE
    /\ host_rx = <<>>
    /\ last = NoOp

----------------------------------------------------------------------------
(* The store on its own: ConfigWriter's public operations applied to a page *)

InitStore ==
    /\ \E n \in InitFills : flash = FilledPage(n, Matrix_new)
    /\ beyond \in BeyondVals
    /\ cr = Locked
    /\ last_valid_index = 0
    /\ hist = [writes |-> 0]
    /\ InitRest

otherVars == <<beyond, layout, q_buf, q_head, q_tail, pc, loc, btn, report,
               expect_interrupt_in_complete, ep_tx, ep_enabled, host_rx>>

\* ConfigWriter::new(..) on the page as found at power-on
StoreNew(hw) ==
    /\ power = "off"
    /\ LET r == ConfigWriter_new(flash, cr, hw) IN
       /\ flash' = r.flash
       /\ cr' = r.cr
       /\ last_valid_index' = r.lvi
       /\ power' = IF r.res = "Ok" THEN "on" ELSE "panic"
       /\ last' = [op |-> "new", m |-> None, hw |-> hw, res |-> r.res,
                   lvi0 |-> last_valid_index]
    /\ UNCHANGED <<otherVars, hist>>

\* writer.write_config(m)
StoreWriteConfig(m, hw) ==
    /\ power = "on"
    /\ hist.writes < MaxWrites
    /\ LET r == write_config(flash, cr, last_valid_index, m, hw) IN
       /\ flash' = r.flash
       /\ cr' = r.cr
       /\ last_valid_index' = r.lvi
       /\ last' = [op |-> "write_config", m |-> Some(m), hw |-> hw,
                   res |-> r.res, lvi0 |-> last_valid_index]
    /\ hist' = [hist EXCEPT !.writes = @ + 1]
    /\ UNCHANGED <<otherVars, power>>

\* writer.write_default()
StoreWriteDefault(hw) ==
    /\ power = "on"
    /\ hist.writes < MaxWrites
    /\ LET r == write_default(flash, cr, last_valid_index, hw) IN
       /\ flash' = r.flash
       /\ cr' = r.cr
       /\ last_valid_index' = r.lvi
       /\ last' = [op |-> "write_default", m |-> None, hw |-> hw,
                   res |-> r.res, lvi0 |-> last_valid_index]
    /\ hist' = [hist EXCEPT !.writes = @ + 1]
    /\ UNCHANGED <<otherVars, power>>

NextStore ==
    \/ StoreNew(NoFault)
    \/ \E m \in StoreMaps : StoreWriteConfig(m, NoFault)
    \/ StoreWriteDefault(NoFault)

SpecStore == InitStore /\ [][NextStore]_vars

\* The entry held by slot i of the page
SlotBytes(f, i) == [k \in 1..CONFIG_SIZE |-> f[SlotAddr(i) + k - 1]]


----------------------------------------------------------------------------
(* The firmware: init, the scan task (debouncer_task) and the USB task *)

IdleLoc == [head |-> 0, cmd |-> None, report |-> KbHidReport_new]
EmptyQueue == [i \in 0..(QUEUE_CAP - 1) |-> None]

\* The debounced state of a button one tick later, with no new edge on the pin
BtnQuiet(s) ==
    CASE s = "ChangedToPressed" -> "Repeat"
      [] s = "ChangedToUnpressed" -> "UnPressed"
      [] OTHER -> s

\* The debounced state of a button one tick later when the pin has settled at
\* the other level
BtnEdge(s) ==
    CASE s = "UnPressed" -> "ChangedToPressed"
      [] s = "Repeat" -> "ChangedToUnpressed"
      [] OTHER -> BtnQuiet(s)

\* PortDebouncer::update: the states after this tick's sample; the value
\* returned is whether any state changed
DebouncerNext(states, edges) ==
    {nb \in [0..(NUM_BTS - 1) -> BtnStates] :
        /\ \A i \in 0..(NUM_BTS - 1) : nb[i] \in {BtnQuiet(states[i]), BtnEdge(states[i])}
        /\ Cardinality({i \in 0..(NUM_BTS - 1) : nb[i] # BtnQuiet(states[i])}) <= edges}

\* init: ConfigWriter::new(flash).unwrap(), get_config().unwrap_or_else(Matrix::new),
\* and every static and late resource in its initial state
SysInit(hw) ==
    /\ power = "off"
    /\ LET r == ConfigWriter_new(flash, cr, hw)
           cfg == get_config(r.flash, r.lvi)
       IN
       /\ flash' = r.flash
       /\ cr' = r.cr
       /\ last_valid_index' = r.lvi
       /\ power' = IF r.res = "Ok" THEN "on" ELSE "panic"
       /\ layout' = IF r.res = "Ok" /\ cfg # None THEN cfg[1] ELSE Matrix_new
       /\ last' = [op |-> "init", hw |-> hw, res |-> r.res, loaded |-> cfg]
       /\ hist' = [hist EXCEPT !.enq = <<>>, !.deq = <<>>, !.applied = <<>>,
                               !.nak = FALSE,
                               !.boot = [layout |-> layout', lvi |-> r.lvi]]
    /\ q_buf' = EmptyQueue
    /\ q_head' = 0
    /\ q_tail' = 0
    /\ pc' = "idle"
    /\ loc' = IdleLoc
    /\ btn' = [i \in 0..(NUM_BTS - 1) |-> "UnPressed"]
    /\ report' = KbHidReport_new
    /\ expect_interrupt_in_complete' = FALSE
    /\ ep_tx' = <<>>
    /\ ep_enabled' = FALSE
    /\ host_rx' = <<>>
    /\ UNCHANGED beyond

\* Power is removed and applied again; RAM is lost, the page is kept
PowerCycle ==
    /\ power \in {"on", "panic"}
    /\ hist.cycles > 0
    /\ power' = "off"
    /\ hist' = [hist EXCEPT !.cycles = @ - 1,
                            !.prev = Some([enq |-> hist.enq, applied |-> hist.applied,
                                           boot |-> hist.boot])]
    /\ last' = [op |-> "power_cycle"]
    /\ UNCHANGED <<flash, beyond, cr, last_valid_index, layout, q_buf, q_head,
                   q_tail, pc, loc, btn, report, expect_interrupt_in_complete,
                   ep_tx, ep_enabled, host_rx>>

\* TIM2 update interrupt: debouncer_task starts with the debouncer update and,
\* when a state changed, Matrix::update
ScanTick ==
    /\ power = "on"
    /\ pc = "idle"
    /\ \E nb \in DebouncerNext(btn, hist.btns) :
        /\ btn' = nb
        /\ hist' = [hist EXCEPT !.btns =
                      @ - Cardinality({i \in 0..(NUM_BTS - 1) : nb[i] # BtnQuiet(btn[i])})]
        /\ IF nb # btn
           THEN /\ pc' = "send"
                /\ loc' = [loc EXCEPT !.report = Matrix_update(layout, nb)]
           ELSE /\ pc' = "dequeue"
                /\ loc' = loc
    /\ last' = [op |-> "tick", changed |-> btn' # btn]
    /\ UNCHANGED <<flash, beyond, cr, last_valid_index, power, layout, q_buf,
                   q_head, q_tail, report, expect_interrupt_in_complete, ep_tx, ep_enabled,
                   host_rx>>

\* cx.resources.keyboard.lock(|shared| ...): set_keyboard_report and, if the
\* report changed, write; the USB task cannot run inside
ScanSend ==
    /\ power = "on"
    /\ pc = "send"
    /\ LET sr == set_keyboard_report(report, loc.report) IN
       /\ report' = sr.report
       /\ IF sr.changed
          THEN \E epres \in EpWriteOutcomes(ep_tx, loc.report) :
                 LET w == Keykey_write(expect_interrupt_in_complete, loc.report, epres) IN
                 /\ expect_interrupt_in_complete' = w.flag
                 /\ ep_tx' = IF w.queued THEN Some(loc.report) ELSE ep_tx
                 /\ last' = [op |-> "send", report |-> loc.report, differed |-> TRUE,
                             prev |-> report, flag0 |-> expect_interrupt_in_complete,
                             ret |-> w.ret, count |-> w.count,
                             called |-> w.called, queued |-> w.queued]
          ELSE /\ UNCHANGED <<expect_interrupt_in_complete, ep_tx>>
               /\ last' = [op |-> "send", report |-> loc.report, differed |-> FALSE,
                           prev |-> report, flag0 |-> expect_interrupt_in_complete,
                           ret |-> "none", count |-> 0,
                           called |-> FALSE, queued |-> FALSE]
    /\ pc' = "dequeue"
    /\ UNCHANGED <<ep_enabled, flash, beyond, cr, last_valid_index, power, layout, q_buf,
                   q_head, q_tail, loc, btn, host_rx, hist>>

\* Consumer::dequeue, first half: load tail and head; None ends the task
ScanDequeueLoad ==
    /\ power = "on"
    /\ pc = "dequeue"
    /\ IF q_head # q_tail
       THEN /\ pc' = "deq_read"
            /\ loc' = [loc EXCEPT !.head = q_head]
       ELSE /\ pc' = "idle"
            /\ loc' = IdleLoc
    /\ last' = [op |-> "dequeue_load"]
    /\ UNCHANGED <<flash, beyond, cr, last_valid_index, power, layout, q_buf,
                   q_head, q_tail, btn, report, expect_interrupt_in_complete,
                   ep_tx, ep_enabled, host_rx, hist>>

\* A dequeue that reads the slot and leaves head where it was
Consumer_take_again(buf, head) == [item |-> buf[head % QUEUE_CAP], head |-> head]

\* Consumer::dequeue, the slot read and the new head
Consumer_take(buf, head) == [item |-> buf[head % QUEUE_CAP], head |-> head + 1]

\* Consumer::dequeue, second part: read the slot at head
ScanDequeueRead ==
    /\ power = "on"
    /\ pc = "deq_read"
    /\ loc' = [loc EXCEPT !.cmd = Consumer_take(q_buf, loc.head).item]
    /\ pc' = "deq_commit"
    /\ last' = [op |-> "dequeue_read"]
    /\ UNCHANGED <<flash, beyond, cr, last_valid_index, power, layout, q_buf,
                   q_head, q_tail, btn, report, expect_interrupt_in_complete,
                   ep_tx, ep_enabled, host_rx, hist>>

\* Consumer::dequeue, last part: publish head + 1
ScanDequeueCommit ==
    /\ power = "on"
    /\ pc = "deq_commit"
    /\ q_head' = Consumer_take(q_buf, loc.head).head
    /\ hist' = [hist EXCEPT !.deq = Append(@, loc.cmd[1])]
    /\ pc' = "apply"
    /\ last' = [op |-> "dequeue_commit"]
    /\ UNCHANGED <<flash, beyond, cr, last_valid_index, power, layout, q_buf,
                   q_tail, loc, btn, report, expect_interrupt_in_complete, ep_tx, ep_enabled,
                   host_rx>>

\* matrix.update_layout(cmd, writer): only FlashNotErased is looked at
ScanApply(hw) ==
    /\ power = "on"
    /\ pc = "apply"
    /\ LET r == update_layout(layout, loc.cmd[1], flash, cr, last_valid_index, hw) IN
       /\ layout' = r.layout
       /\ flash' = r.flash
       /\ cr' = r.cr
       /\ last_valid_index' = r.lvi
       /\ IF r.res = "FlashNotErased"
          THEN /\ pc' = "recover"
               /\ loc' = loc
               /\ hist' = hist
          ELSE /\ pc' = "idle"
               /\ loc' = IdleLoc
               /\ hist' = [hist EXCEPT !.applied = Append(@, loc.cmd[1])]
       /\ last' = [op |-> "apply", cmd |-> loc.cmd[1], hw |-> hw, res |-> r.res,
                   lvi0 |-> last_valid_index]
    /\ UNCHANGED <<beyond, power, q_buf, q_head, q_tail, btn, report,
                   expect_interrupt_in_complete, ep_tx, ep_enabled, host_rx>>

\* writer.write_default().unwrap(); update_layout(cmd, writer).unwrap()
ScanRecover(hw, hw2) ==
    /\ power = "on"
    /\ pc = "recover"
    /\ LET d == write_default(flash, cr, last_valid_index, hw)
           r == update_layout(layout, loc.cmd[1], d.flash, d.cr, d.lvi, hw2)
       IN
       IF d.res # "Ok"
       THEN /\ flash' = d.flash
            /\ cr' = d.cr
            /\ last_valid_index' = d.lvi
            /\ layout' = layout
            /\ power' = "panic"
            /\ hist' = hist
            /\ last' = [op |-> "recover", cmd |-> loc.cmd[1], hw |-> hw,
                        res |-> d.res, lvi0 |-> last_valid_index]
       ELSE /\ flash' = r.flash
            /\ cr' = r.cr
            /\ last_valid_index' = r.lvi
            /\ layout' = r.layout
            /\ power' = IF r.res = "Ok" THEN "on" ELSE "panic"
            /\ hist' = [hist EXCEPT !.applied =
                          IF r.res = "Ok" THEN Append(@, loc.cmd[1]) ELSE @]
            /\ last' = [op |-> "recover", cmd |-> loc.cmd[1], hw |-> hw2,
                        res |-> r.res, lvi0 |-> last_valid_index]
    /\ pc' = "idle"
    /\ loc' = IdleLoc
    /\ UNCHANGED <<beyond, q_buf, q_head, q_tail, btn, report,
                   expect_interrupt_in_complete, ep_tx, ep_enabled, host_rx>>

\* USB task: a control OUT transfer handed to Keykey::control_out
UsbControlOut(req, data) ==
    /\ power = "on"
    /\ LET r == control_out(req, data, q_buf, q_head, q_tail)
           q0 == QueueSeq(q_buf, q_head, q_tail)
       IN
       /\ q_buf' = r.buf
       /\ q_tail' = r.tail
       /\ last' = [op |-> "control_out", req |-> req, data |-> data,
                   accepted |-> r.accepted, q0 |-> q0, nak0 |-> hist.nak]
       /\ hist' = IF r.accepted
                  THEN [hist EXCEPT !.enq = Append(@, r.buf[q_tail % QUEUE_CAP][1]),
                                    !.sent = @ + 1, !.nak = FALSE]
                  ELSE [hist EXCEPT !.nak = (Len(q0) = QUEUE_CAP)]
    /\ UNCHANGED <<flash, beyond, cr, last_valid_index, power, layout, q_head,
                   pc, loc, btn, report, expect_interrupt_in_complete, ep_tx, ep_enabled,
                   host_rx>>

\* USB task: the host has taken the packet of an IN endpoint and the stack
\* calls Keykey::endpoint_in_complete(addr)
UsbEndpointInComplete(addr) ==
    /\ power = "on"
    /\ IF addr = KEY_EP THEN ep_tx # <<>> ELSE hist.usb > 0
    /\ hist' = IF addr = KEY_EP THEN hist ELSE [hist EXCEPT !.usb = @ - 1]
    /\ expect_interrupt_in_complete' =
          endpoint_in_complete(expect_interrupt_in_complete, addr)
    /\ ep_tx' = IF addr = KEY_EP THEN <<>> ELSE ep_tx
    /\ host_rx' = IF addr = KEY_EP THEN ep_tx ELSE host_rx
    /\ last' = [op |-> "endpoint_in_complete", addr |-> addr,
                flag0 |-> expect_interrupt_in_complete]
    /\ UNCHANGED <<ep_enabled, flash, beyond, cr, last_valid_index, power, layout, q_buf,
                   q_head, q_tail, pc, loc, btn, report>>

\* USB task: bus reset, the stack calls Keykey::reset and the endpoint
\* drops what it held
UsbReset ==
    /\ power = "on"
    /\ hist.usb > 0
    /\ hist' = [hist EXCEPT !.usb = @ - 1]
    /\ expect_interrupt_in_complete' = reset(expect_interrupt_in_complete)
    /\ ep_tx' = <<>>
    /\ ep_enabled' = TRUE
    /\ last' = [op |-> "reset", flag0 |-> expect_interrupt_in_complete]
    /\ UNCHANGED <<flash, beyond, cr, last_valid_index, power, layout, q_buf,
                   q_head, q_tail, pc, loc, btn, report, host_rx>>


----------------------------------------------------------------------------
(* The firmware as a whole *)

\* length of the long command script; debounced edges, bus resets (and
\* completions of the unused endpoint) and power cycles per run
MaxCmds == 9
MaxEdges == 2
MaxUsb == 1
MaxCycles == 1

\* Pages the firmware itself leaves behind: blank, or the first n slots written
SysFills == (0..1) \cup ((CONFIGS_IN_PAGE - 2)..(CONFIGS_IN_PAGE - 1))

\* A page of n entries whose next slot was hit by a failed half-word program
SpoiltPage(n) ==
    [FilledPage(n, Matrix_new) EXCEPT ![SlotAddr(n)] = 0, ![SlotAddr(n) + 1] = 0]

CtrlReq == [request_type |-> "Class", recipient |-> "Interface",
            index |-> CTRL_INTERFACE, request |-> 9]

\* What the host sends, in order: remap slot 0 to Space, then Save (S2) ...
ScriptSave == <<<<1, KeyCode_Space>>, <<4, 0>>>>
\* ... or a run of remaps, each with another key code
ScriptLong == [k \in 1..MaxCmds |-> <<1 + (k % NUM_BTS), KeyCode_A + k>>]

\* The payload the host sends next: a refused transfer is tried again
HostNext(h) == IF h.sent < Len(h.script) THEN {h.script[h.sent + 1]} ELSE {}

NoHist == [enq |-> <<>>, deq |-> <<>>, applied |-> <<>>, nak |-> FALSE,
           boot |-> [layout |-> Matrix_new, lvi |-> 0], prev |-> None,
           script |-> <<>>, sent |-> 0, btns |-> 0, usb |-> 0, cycles |-> 0]

\* Three kinds of run: remap and save across a power cycle; a long run of
\* commands; key presses with bus events
Init ==
    /\ \/ /\ \/ \E n \in SysFills : flash = FilledPage(n, Matrix_new)
             \/ flash = SpoiltPage(1)
          /\ hist = [NoHist EXCEPT !.script = ScriptSave, !.cycles = MaxCycles]
       \/ /\ flash = FilledPage(1, Matrix_new)
          /\ hist = [NoHist EXCEPT !.script = ScriptLong]
       \/ /\ flash = FilledPage(1, Matrix_new)
          /\ hist = [NoHist EXCEPT !.btns = MaxEdges, !.usb = MaxUsb]
    /\ beyond \in BeyondVals
    /\ cr = Locked
    /\ last_valid_index = 0
    /\ InitRest

Next ==
    \/ SysInit(NoFault)
    \/ PowerCycle
    \/ ScanTick
    \/ ScanSend
    \/ ScanDequeueLoad
    \/ ScanDequeueRead
    \/ ScanDequeueCommit
    \/ ScanApply(NoFault)
    \/ ScanRecover(NoFault, NoFault)
    \/ \E data \in HostNext(hist) : UsbControlOut(CtrlReq, data)
    \/ \E addr \in {KEY_EP, DUMMY_EP} : UsbEndpointInComplete(addr)
    \/ UsbReset

Spec == Init /\ [][Next]_vars


----------------------------------------------------------------------------
(* The control channel on its own: control_out against a consumer *)

\* commands accepted per run of the control-channel specification
MaxCtrlCmds == 2

RequestTypes == {"Standard", "Class", "Vendor"}
Recipients == {"Device", "Interface", "Endpoint"}
\* wIndex: the two interfaces, an unused one, and one whose low byte is 1
Indexes == {KEY_INTERFACE, CTRL_INTERFACE, 2, 257}
\* bRequest: SetReport, GetReport, SetIdle, and a code that is no HID request
RequestCodes == {9, 1, 10, 85}
\* command bytes: the four commands, their neighbours, GetOSFeature
CmdBytes == {0, 1, 2, 3, 4, 5, 70}
\* value bytes: a key, the last code of each zone, the first code after each
\* zone, the highest byte
ValBytes == {KeyCode_Space, ZONE1_LAST, ZONE1_LAST + 1, ZONE2_LAST,
             ZONE2_LAST + 1, 255}

\* Headers that differ from the control interface's in exactly one field
OtherHeaders ==
    {[CtrlReq EXCEPT !.request_type = t] : t \in RequestTypes \ {CtrlReq.request_type}}
    \cup {[CtrlReq EXCEPT !.recipient = r] : r \in Recipients \ {CtrlReq.recipient}}
    \cup {[CtrlReq EXCEPT !.index = i] : i \in Indexes \ {CtrlReq.index}}
    \cup {[CtrlReq EXCEPT !.request = q] : q \in RequestCodes \ {CtrlReq.request}}

\* Transfers to the control interface with every payload, and every other
\* header with a payload that would be accepted there
CtrlInputs ==
    {[req |-> CtrlReq, data |-> d] :
        d \in {<<>>, <<1>>, <<1, KeyCode_Space, 0>>, <<4, 0, 0>>}
              \cup {<<c, v>> : c \in CmdBytes, v \in ValBytes}}
    \cup
    {[req |-> h, data |-> d] :
        h \in OtherHeaders, d \in {<<1, KeyCode_Space>>, <<4, 0>>}}

InitCtrl ==
    /\ flash = FilledPage(1, Matrix_new)
    /\ beyond = ERASED
    /\ cr = Locked
    /\ last_valid_index = 0
    /\ hist = NoHist
    /\ InitRest

\* The consumer end on its own: Consumer::dequeue, the item dropped
CtrlDequeue ==
    /\ q_head # q_tail
    /\ q_head' = Consumer_take(q_buf, q_head).head
    /\ hist' = [hist EXCEPT !.deq = Append(@, Consumer_take(q_buf, q_head).item[1])]
    /\ last' = [op |-> "dequeue"]
    /\ UNCHANGED <<flash, beyond, cr, last_valid_index, power, layout, q_buf,
                   q_tail, pc, loc, btn, report, expect_interrupt_in_complete,
                   ep_tx, ep_enabled, host_rx>>

\* Keykey::new(alloc, prod)
CtrlNew ==
    /\ power = "off"
    /\ power' = "on"
    /\ last' = [op |-> "Keykey_new"]
    /\ UNCHANGED <<flash, beyond, cr, last_valid_index, layout, q_buf, q_head,
                   q_tail, pc, loc, btn, report, expect_interrupt_in_complete,
                   ep_tx, ep_enabled, host_rx, hist>>

NextCtrl ==
    \/ CtrlNew
    \/ /\ hist.sent < MaxCtrlCmds
       /\ \E x \in CtrlInputs : UsbControlOut(x.req, x.data)
    \/ CtrlDequeue

SpecCtrl == InitCtrl /\ [][NextCtrl]_vars

----------------------------------------------------------------------------
(* The keyboard endpoint on its own: write, endpoint_in_complete, reset *)

\* bus resets and completions of the unused endpoint per run
MaxEpEvents == 2

\* Payloads handed to Keykey::write: empty, short, a report, too long
EpData ==
    {[i \in 1..n |-> 0] : n \in {0, REPORT_LEN - 1, REPORT_LEN, REPORT_LEN + 1}}
    \cup {KbHidReport_pressed(KbHidReport_new, KeyCode_A)}

InitEp ==
    /\ flash = FilledPage(1, Matrix_new)
    /\ beyond = ERASED
    /\ cr = Locked
    /\ last_valid_index = 0
    /\ hist = [NoHist EXCEPT !.usb = MaxEpEvents]
    /\ InitRest

\* keyboard.write(data)
EpWrite(data) ==
    /\ power = "on"
    /\ \E epres \in EpWriteOutcomes(ep_tx, data) :
         LET w == Keykey_write(expect_interrupt_in_complete, data, epres) IN
         /\ expect_interrupt_in_complete' = w.flag
         /\ ep_tx' = IF w.queued THEN Some(data) ELSE ep_tx
         /\ last' = [op |-> "write", data |-> data,
                     flag0 |-> expect_interrupt_in_complete, tx0 |-> ep_tx,
                     ret |-> w.ret, count |-> w.count, called |-> w.called,
                     queued |-> w.queued]
    /\ UNCHANGED <<ep_enabled, flash, beyond, cr, last_valid_index, power, layout, q_buf,
                   q_head, q_tail, pc, loc, btn, report, host_rx, hist>>

NextEp ==
    \/ CtrlNew
    \/ \E data \in EpData : EpWrite(data)
    \/ \E addr \in {KEY_EP, DUMMY_EP} : UsbEndpointInComplete(addr)
    \/ UsbReset

SpecEp == InitEp /\ [][NextEp]_vars


----------------------------------------------------------------------------
(* Matrix::update on its own: every mapping of a small set against every   *)
(* debouncer snapshot                                                      *)

\* Mappings: the factory one, a remapped one, one with a code on two slots
UpdateMaps == {Matrix_new,
               <<KeyCode_Space, KeyCode_B, KeyCode_C>>,
               <<KeyCode_A, KeyCode_A, KeyCode_C>>,
               <<ZONE2_LAST, ZONE1_LAST, KeyCode_Space>>}

InitUpdate ==
    /\ flash = FilledPage(1, Matrix_new)
    /\ beyond = ERASED
    /\ cr = Locked
    /\ last_valid_index = 0
    /\ hist = NoHist
    /\ power = "on"
    /\ layout \in UpdateMaps
    /\ q_buf = EmptyQueue
    /\ q_head = 0
    /\ q_tail = 0
    /\ pc = "idle"
    /\ loc = IdleLoc
    /\ btn \in [0..(NUM_BTS - 1) -> BtnStates]
    /\ report = KbHidReport_new
    /\ expect_interrupt_in_complete = FALSE
    /\ ep_tx = <<>>
    /\ ep_enabled = FALSE
    /\ host_rx = <<>>
    /\ last = NoOp

\* matrix.update(debouncer_handler) on the snapshot, the result kept in the
\* task's local
UpdateCompose ==
    /\ last.op # "update"
    /\ loc' = [loc EXCEPT !.report = Matrix_update(layout, btn)]
    /\ last' = [op |-> "update"]
    /\ UNCHANGED <<flash, beyond, cr, last_valid_index, power, layout, q_buf,
                   q_head, q_tail, pc, btn, report,
                   expect_interrupt_in_complete, ep_tx, ep_enabled, host_rx,
                   hist>>

NextUpdate == UpdateCompose

SpecUpdate == InitUpdate /\ [][NextUpdate]_vars


----------------------------------------------------------------------------
(* The control IN side on its own: descriptors and GetReport *)

\* wValue of a GetReport: Input, Output, Feature, two reserved types, and
\* Input with a report id
ReportValues == {256, 512, 768, 0, 1024, 261}
\* wValue of a GET_DESCRIPTOR: Report with index 0, 1, 2, and the HID and
\* Physical types
DescriptorValues == {8704, 8705, 8706, 8448, 8960}
\* wLength of a GetReport, around the report's length
ReportLengths == {0, REPORT_LEN - 1, REPORT_LEN, REPORT_LEN + 1, 64}
\* wLength of a GET_DESCRIPTOR: below, at and above the descriptors' lengths
DescriptorLengths ==
    {0, 9, Len(CTRL_REPORT_DESCRIPTOR) - 1, Len(CTRL_REPORT_DESCRIPTOR),
     Len(KEY_REPORT_DESCRIPTOR), Len(KEY_REPORT_DESCRIPTOR) + 1, 255}

InRequest(t, r, q, v, i, l) ==
    [request_type |-> t, recipient |-> r, request |-> q, value |-> v,
     index |-> i, length |-> l]

\* wIndex values that name no interface but share their low byte with one
WideIndexes == {256, 257, 258, 65280}

InInputs ==
    {InRequest("Class", "Interface", 1, v, i, l) :
        v \in ReportValues, i \in {KEY_INTERFACE, CTRL_INTERFACE, 2}, l \in ReportLengths}
    \cup
    {InRequest("Standard", "Interface", GET_DESCRIPTOR, v, i, l) :
        v \in DescriptorValues, i \in {KEY_INTERFACE, CTRL_INTERFACE, 2},
        l \in DescriptorLengths}
    \cup
    {InRequest(t, r, q, 256, KEY_INTERFACE, REPORT_LEN) :
        t \in RequestTypes, r \in Recipients, q \in {1, 2, GET_DESCRIPTOR}}
    \cup
    {InRequest("Class", "Interface", 1, v, i, l) :
        v \in {256, 512}, i \in WideIndexes, l \in {REPORT_LEN - 1, REPORT_LEN}}

\* Reports the scan task may have set
InReports == {KbHidReport_new,
              KbHidReport_pressed(KbHidReport_new, KeyCode_A),
              KbHidReport_pressed(KbHidReport_pressed(KbHidReport_new, KeyCode_A),
                                  KeyCode_Space)}

InitIn ==
    /\ flash = FilledPage(1, Matrix_new)
    /\ beyond = ERASED
    /\ cr = Locked
    /\ last_valid_index = 0
    /\ hist = NoHist
    /\ InitRest

\* keyboard.set_keyboard_report(r)
InSetReport(r) ==
    /\ power = "on"
    /\ report' = set_keyboard_report(report, r).report
    /\ last' = [op |-> "set_keyboard_report", report |-> r]
    /\ UNCHANGED <<flash, beyond, cr, last_valid_index, power, layout, q_buf,
                   q_head, q_tail, pc, loc, btn, expect_interrupt_in_complete,
                   ep_tx, ep_enabled, host_rx, hist>>

\* USB task: a control IN transfer handed to Keykey::control_in
UsbControlIn(req) ==
    /\ power = "on"
    /\ last' = [op |-> "control_in", req |-> req,
                outcome |-> control_in(req, report).outcome,
                data |-> control_in(req, report).data]
    /\ UNCHANGED <<flash, beyond, cr, last_valid_index, power, layout, q_buf,
                   q_head, q_tail, pc, loc, btn, report,
                   expect_interrupt_in_complete, ep_tx, ep_enabled, host_rx,
                   hist>>

\* USB task: the stack collects the configuration descriptor
UsbGetConfigurationDescriptors ==
    /\ power = "on"
    /\ last' = [op |-> "get_configuration_descriptors",
                items |-> get_configuration_descriptors]
    /\ UNCHANGED <<flash, beyond, cr, last_valid_index, power, layout, q_buf,
                   q_head, q_tail, pc, loc, btn, report,
                   expect_interrupt_in_complete, ep_tx, ep_enabled, host_rx,
                   hist>>

NextIn ==
    \/ CtrlNew
    \/ \E r \in InReports : InSetReport(r)
    \/ \E req \in InInputs : UsbControlIn(req)
    \/ UsbGetConfigurationDescriptors

SpecIn == InitIn /\ [][NextIn]_vars


----------------------------------------------------------------------------
(* Claims about the store *)

\* C1: flash round trip. Every write_config(m) made without a hardware fault
\* returns Ok, and the get_config() that follows returns Some(m), whatever
\* last_valid_index was.
C1_FlashRoundTrip ==
    (last.op = "write_config" /\ last.hw = NoFault) =>
        /\ last.res = "Ok"
        /\ get_config(flash, last_valid_index) = last.m

\* C2: page fill and wrap. Every write_config without a hardware fault
\* succeeds; while a next slot exists the entry lands in slot
\* last_valid_index + 1, and the write made at last_valid_index = K-1 erases
\* the page, puts the entry in slot 0 and leaves last_valid_index = 0.
C2_PageFillAndWrap ==
    (last.op = "write_config" /\ last.hw = NoFault) =>
        /\ last.res = "Ok"
        /\ IF last.lvi0 + 1 < CONFIGS_IN_PAGE
           THEN /\ last_valid_index = last.lvi0 + 1
                /\ SlotBytes(flash, last.lvi0 + 1) = matrix_to_config(last.m[1])
           ELSE /\ last_valid_index = 0
                /\ SlotBytes(flash, 0) = matrix_to_config(last.m[1])
                /\ \A a \in PageAddrs : a >= SlotAddr(1) => flash[a] = ERASED

----------------------------------------------------------------------------
(* Claims about the firmware as a whole *)

\* The slot a SetSlot command writes (1-based in the mapping)
SetIndex(c) == CASE c.cmd = "Set1" -> 1 [] c.cmd = "Set2" -> 2 [] OTHER -> 3

\* The mapping after the SetSlot commands of cmds, in order
RECURSIVE MappingAfter(_, _)
MappingAfter(m, cmds) ==
    IF cmds = <<>> THEN m
    ELSE MappingAfter(IF Head(cmds).cmd = "Save" THEN m
                      ELSE [m EXCEPT ![SetIndex(Head(cmds))] = Head(cmds).key],
                      Tail(cmds))

\* One or more SetSlot commands followed by one Save
SetsThenSave(cmds) ==
    /\ Len(cmds) >= 2
    /\ cmds[Len(cmds)].cmd = "Save"
    /\ \A i \in 1..(Len(cmds) - 1) : cmds[i].cmd # "Save"

\* C3: remap then persist. When the commands accepted in a session were
\* SetSlot commands followed by Save and the scan task has applied them all,
\* the boot after the power cycle loads the mapping with every one of those
\* SetSlots, and last_valid_index is one more than at the boot before.
C3_RemapThenPersist ==
    (/\ last.op = "init"
     /\ hist.prev # None
     /\ SetsThenSave(hist.prev[1].enq)
     /\ hist.prev[1].applied = hist.prev[1].enq)
    =>
        /\ last.res = "Ok"
        /\ layout = MappingAfter(hist.prev[1].boot.layout, hist.prev[1].enq)
        /\ last_valid_index = hist.prev[1].boot.lvi + 1

\* C4: command queue ordering under preemption. With control_out running
\* between any two steps of the scan task, the commands accepted so far are
\* exactly the commands dequeued so far followed by the commands still in the
\* queue, in the order of acceptance: none lost, none twice, none out of order.
C4_QueueFifo ==
    /\ hist.enq = hist.deq \o QueueSeq(q_buf, q_head, q_tail)
    /\ Len(hist.deq) = q_head
    /\ Len(hist.enq) = q_tail

\* A command is accepted while the scan task is between reading a slot and
\* publishing the new head, after the ring has wrapped
C4_Witness ==
    /\ pc = "deq_commit"
    /\ last.op = "control_out"
    /\ last.accepted
    /\ q_tail > QUEUE_CAP
    /\ Len(hist.deq) >= 1

\* A transfer control_out accepts when the queue has room
WellFormed(req, data) == control_out(req, data, EmptyQueue, 0, 0).accepted

\* C7: bounded command queue. The queue never holds more than 8 commands; a
\* well-formed control OUT is accepted exactly when fewer than 8 are queued,
\* so it is refused at 8 and accepted on the retry after a dequeue; a refused
\* transfer leaves the queued commands as they were.
C7_BoundedQueue ==
    /\ q_tail - q_head <= QUEUE_CAP
    /\ Len(QueueSeq(q_buf, q_head, q_tail)) <= QUEUE_CAP
    /\ (last.op = "control_out" /\ WellFormed(last.req, last.data)) =>
          /\ last.accepted <=> (Len(last.q0) < QUEUE_CAP)
          /\ ~last.accepted => QueueSeq(q_buf, q_head, q_tail) = last.q0
          /\ last.accepted =>
                Len(QueueSeq(q_buf, q_head, q_tail)) = Len(last.q0) + 1

\* The command refused at 8 queued commands is accepted on the retry, after
\* the scan task has dequeued one
C7_Witness ==
    /\ last.op = "control_out"
    /\ last.accepted
    /\ last.nak0
    /\ Len(last.q0) = QUEUE_CAP - 1

\* C10: transmission of a changed report. Whenever the scan task composes a
\* report that differs from the previous one while the flag is clear, that
\* report is on the keyboard endpoint when the tick's send step is over.
C10_ChangedReportTransmitted ==
    (last.op = "send" /\ last.differed /\ ~last.flag0) =>
        ep_tx = Some(last.report)

----------------------------------------------------------------------------
(* Claims about the control channel *)

\* A usage code byte that decodes: inside one of the two zones
Decodable(b) ==
    \/ ZONE1_FIRST <= b /\ b <= ZONE1_LAST
    \/ ZONE2_FIRST <= b /\ b <= ZONE2_LAST

\* The header of a transfer meant for the control interface
ForCtrl(req) ==
    /\ req.request_type = "Class"
    /\ req.recipient = "Interface"
    /\ req.index = CTRL_INTERFACE
    /\ Request_new(req.request) = Some("SetReport")

\* C5: control-OUT acceptance rule. A class, interface, SetReport transfer to
\* the control interface with two payload bytes [cmd, value], the queue not
\* full, is accepted iff cmd is 1..4 and, for cmd 1..3, value is a decodable
\* usage code; for cmd 4 (Save) every value byte is accepted.
C5_AcceptanceRule ==
    (/\ last.op = "control_out"
     /\ ForCtrl(last.req)
     /\ Len(last.data) = 2
     /\ Len(last.q0) < QUEUE_CAP)
    =>
        (last.accepted <=>
            /\ last.data[1] \in 1..4
            /\ last.data[1] \in 1..3 => Decodable(last.data[2]))

\* C6: malformed control-OUT requests have no effect. A transfer whose type is
\* not Class, or recipient not Interface, or index not the control interface,
\* or request not SetReport, or payload not two bytes long, is not accepted and
\* the step leaves the queue and the mapping as they were.
C6_MalformedNoEffect ==
    [][(/\ last'.op = "control_out"
        /\ (~ForCtrl(last'.req) \/ Len(last'.data) # 2))
       =>
        /\ ~last'.accepted
        /\ UNCHANGED <<q_buf, q_head, q_tail, layout>>
        /\ hist'.enq = hist.enq]_vars

\* A transfer that is right in every field but wIndex, whose low byte is the
\* control interface's number, arrives with a command already queued
C6_Witness ==
    /\ last.op = "control_out"
    /\ last.req = [CtrlReq EXCEPT !.index = 257]
    /\ last.data = <<1, KeyCode_Space>>
    /\ ~last.accepted
    /\ Len(last.q0) = 1

----------------------------------------------------------------------------
(* Claims about the keyboard endpoint *)

\* C8: write under backpressure is a no-op. Whenever the flag is set,
\* Keykey::write returns Ok(0), does not call the endpoint write, and leaves
\* the flag set and the endpoint as it was.
C8_WriteUnderBackpressure ==
    (last.op = "write" /\ last.flag0) =>
        /\ last.ret = "Ok"
        /\ last.count = 0
        /\ ~last.called
        /\ expect_interrupt_in_complete
        /\ ep_tx = last.tx0

\* A full report is written while the flag is set
C8_Witness ==
    /\ last.op = "write"
    /\ last.flag0
    /\ Len(last.data) = REPORT_LEN
    /\ last.data # KbHidReport_new

\* C9: input endpoint state machine. A write of 8 bytes or more sets the flag
\* and a shorter write leaves it; endpoint_in_complete clears it for the
\* keyboard endpoint's address and leaves it for any other; reset clears it;
\* nothing else changes it.
C9_EndpointStateMachine ==
    [][LET f == expect_interrupt_in_complete
           g == expect_interrupt_in_complete'
       IN
       CASE last'.op = "write" ->
              g = (f \/ Len(last'.data) >= 8)
         [] last'.op = "endpoint_in_complete" ->
              g = (f /\ last'.addr # KEY_EP)
         [] last'.op = "reset" -> ~g
         [] OTHER -> g = f]_vars

\* The unused endpoint completes while the keyboard endpoint awaits its own
\* completion, and the flag stays set
C9_Witness ==
    /\ last.op = "endpoint_in_complete"
    /\ last.addr = DUMMY_EP
    /\ last.flag0
    /\ expect_interrupt_in_complete
    /\ ep_tx # <<>>

----------------------------------------------------------------------------
(* Claims about reports *)

\* C11: backpressure drops reports silently. A report composed while the flag
\* is set is dropped: write returns Ok(0), nothing reaches the endpoint, the
\* flag stays set. A tick that composes the report already stored writes
\* nothing. In a tick after a transfer has completed, with the flag clear,
\* the composed report is put on the endpoint iff it differs from the stored
\* one, and then it is that report which is queued.
C11_BackpressureDrops ==
    (last.op = "send") =>
        /\ last.ret \in {"Ok", "none"}
        /\ (last.flag0 /\ last.report # last.prev) =>
              /\ last.ret = "Ok"
              /\ last.count = 0
              /\ ~last.queued
              /\ expect_interrupt_in_complete
              /\ report = last.report
        /\ (last.report = last.prev) => (~last.called /\ ~last.queued)
        /\ (~last.flag0 /\ host_rx # <<>>) =>
              /\ last.queued <=> (last.report # last.prev)
              /\ last.queued => ep_tx = Some(last.report)

\* A key is released while the report of its press is still in flight: the
\* report of the release is dropped
C11_Witness ==
    /\ last.op = "send"
    /\ last.flag0
    /\ last.report # last.prev
    /\ last.report = KbHidReport_new
    /\ ep_tx # <<>>
    /\ ep_tx # Some(last.report)

\* After the completion, the next change of the report is transmitted
C11_WitnessRetransmit ==
    /\ last.op = "send"
    /\ ~last.flag0
    /\ host_rx # <<>>
    /\ last.report # last.prev
    /\ ep_tx = Some(last.report)

\* The usage codes in the key bytes of a report
ReportCodes(r) == {r[i] : i \in 3..REPORT_LEN} \ {0}

\* A tick in which no button is pressed or released and none finishes its
\* release, while at least one is down
HoldStep(b, nb) ==
    /\ \A i \in 0..(NUM_BTS - 1) :
          nb[i] = BtnQuiet(b[i]) /\ b[i] # "ChangedToUnpressed"
    /\ \E i \in 0..(NUM_BTS - 1) : b[i] \in {"ChangedToPressed", "Repeat"}

\* C12: press-and-hold emits one report. Every report composed while a button
\* is down contains its usage code; a tick of a hold composes, if anything,
\* the report already stored; and a tick that composes the stored report
\* issues no write.
C12_PressAndHold ==
    /\ [][(last'.op = "tick" /\ pc' = "send") =>
            /\ \A i \in 0..(NUM_BTS - 1) :
                  btn'[i] \in {"ChangedToPressed", "Repeat"} =>
                      layout[i + 1] \in ReportCodes(loc'.report)
            /\ HoldStep(btn, btn') => loc'.report = report]_vars
    /\ []((last.op = "send" /\ last.report = last.prev) =>
            (~last.called /\ ~last.queued))

\* Button 0 is held with the factory mapping: the tick after the press
\* composes [0,0,A,0,0,0,0,0] again and writes nothing
C12_Witness ==
    /\ last.op = "send"
    /\ btn = [i \in 0..(NUM_BTS - 1) |-> IF i = 0 THEN "Repeat" ELSE "UnPressed"]
    /\ last.report = KbHidReport_pressed(KbHidReport_new, KeyCode_A)
    /\ last.prev = last.report
    /\ ~last.called
    /\ ep_tx = Some(last.report)

\* The key bytes of a report that hold a code, in order
RECURSIVE KeySeq(_, _)
KeySeq(r, i) ==
    IF i > REPORT_LEN THEN <<>>
    ELSE (IF r[i] = 0 THEN <<>> ELSE <<r[i]>>) \o KeySeq(r, i + 1)

\* The codes of the slots that are pressed or held, in slot order
RECURSIVE DownCodes(_, _, _)
DownCodes(m, states, i) ==
    IF i >= NUM_BTS THEN <<>>
    ELSE (IF states[i] \in {"ChangedToPressed", "Repeat"}
          THEN <<m[i + 1]>> ELSE <<>>) \o DownCodes(m, states, i + 1)

\* C13: report composition. The report of Matrix::update holds code u in its
\* key bytes iff some slot mapped to u is ChangedToPressed or Repeat
\* (UnPressed and ChangedToUnpressed contribute nothing); the codes stand in
\* slot order and the modifier and reserved bytes are zero.
C13_ReportComposition ==
    (last.op = "update") =>
        /\ KeySeq(loc.report, 3) = DownCodes(layout, btn, 0)
        /\ loc.report[1] = 0
        /\ loc.report[2] = 0

----------------------------------------------------------------------------
(* Claims about the control IN side *)

\* C14: GetReport handling. A (Class, Interface) GetReport whose index names
\* the keyboard or the control interface is accepted iff its length is at
\* least 8 and the type in the high byte of its value is Input or Feature,
\* and is rejected otherwise; the response is the stored keyboard report for
\* the keyboard interface and eight zero bytes for the control interface.
C14_GetReport ==
    (/\ last.op = "control_in"
     /\ last.req.request_type = "Class"
     /\ last.req.recipient = "Interface"
     /\ Request_new(last.req.request) = Some("GetReport")
     /\ last.req.index \in {KEY_INTERFACE, CTRL_INTERFACE})
    =>
        /\ last.outcome \in {"accept", "reject"}
        /\ last.outcome = "accept" <=>
              /\ last.req.length >= 8
              /\ (last.req.value \div 256) \in {1, 3}
        /\ last.outcome = "accept" =>
              last.data = IF last.req.index = KEY_INTERFACE THEN report
                          ELSE <<0, 0, 0, 0, 0, 0, 0, 0>>

\* A Feature GetReport of exactly 8 bytes on the keyboard interface is
\* answered with the report of a pressed key
C14_Witness ==
    /\ last.op = "control_in"
    /\ Request_new(last.req.request) = Some("GetReport")
    /\ last.req.request_type = "Class"
    /\ last.req.index = KEY_INTERFACE
    /\ last.req.value = 768
    /\ last.req.length = 8
    /\ last.outcome = "accept"
    /\ last.data = KbHidReport_pressed(KbHidReport_new, KeyCode_A)

\* C15: report-descriptor service. A (Standard, Interface) GET_DESCRIPTOR of
\* type Report is answered with the keyboard report descriptor when
\* request.index is 0 and with the control report descriptor when
\* request.index is 1, cut to the first min(len, request.length) bytes.
C15_ReportDescriptorService ==
    (/\ last.op = "control_in"
     /\ last.req.request_type = "Standard"
     /\ last.req.recipient = "Interface"
     /\ last.req.request = GET_DESCRIPTOR
     /\ last.req.value \div 256 = DescriptorType_Report
     /\ last.req.index \in {KEY_INTERFACE, CTRL_INTERFACE})
    =>
        /\ last.outcome = "accept"
        /\ last.data = Take(IF last.req.index = KEY_INTERFACE
                            THEN KEY_REPORT_DESCRIPTOR
                            ELSE CTRL_REPORT_DESCRIPTOR, last.req.length)

\* The report descriptor length a class descriptor announces
Announced(item) == item.bytes[6] + 256 * item.bytes[7]

\* The statement of C16 with the lengths as a parameter: the class
\* descriptors announce kl and cl bytes, and a descriptor served in full
\* is kl bytes long if it is the keyboard's and cl if it is the control one
DescriptorSizes(kl, cl) ==
    /\ (last.op = "get_configuration_descriptors") =>
          /\ Announced(last.items[2]) = kl
          /\ Announced(last.items[5]) = cl
    /\ (/\ last.op = "control_in"
        /\ last.req.request_type = "Standard"
        /\ last.outcome = "accept"
        /\ last.req.length >= 255) =>
          /\ last.data[1] = KEY_REPORT_DESCRIPTOR[1] => Len(last.data) = kl
          /\ last.data[1] = CTRL_REPORT_DESCRIPTOR[1] => Len(last.data) = cl

\* C16: report descriptor sizes. The keyboard report descriptor served and
\* announced is 63 bytes long, the control report descriptor served and
\* announced is 18 bytes long.
C16_DescriptorSizes == DescriptorSizes(63, 18)

\* C16 as the code has it: the keyboard report descriptor served and
\* announced is 46 bytes long, the control report descriptor 21 bytes.
C16_DescriptorSizesAsServed == DescriptorSizes(46, 21)

\* The keyboard report descriptor is served in full
C16_Witness ==
    /\ last.op = "control_in"
    /\ last.req.request = GET_DESCRIPTOR
    /\ last.req.length = 255
    /\ last.outcome = "accept"
    /\ last.data = KEY_REPORT_DESCRIPTOR

----------------------------------------------------------------------------
(* The store under hardware faults, called the way main.rs calls it: init
   unwraps ConfigWriter::new, debouncer_task drops the errors of
   write_config, and write_default is unwrapped *)

MaxFaultOps == 1

\* Pages found at power-on: committed entries, a page spoilt after its first
\* entry, and a page that was never a config page
ZeroPage == [a \in PageAddrs |-> 0]
FaultPages ==
    {FilledPage(n, Matrix_new) :
        n \in {0, 1, CONFIGS_IN_PAGE - 1, CONFIGS_IN_PAGE}}
    \cup {SpoiltPage(1), ZeroPage}

\* One fault per call: a failed erase returns before anything is programmed,
\* and the half-word index only matters to a fault that hits a half-word
FaultCases ==
    {hw \in HwFaults :
        /\ hw.er = "none" \/ hw.wr = "none"
        /\ hw.at = 0 \/ hw.er = "verify" \/ hw.wr \in {"wrprt", "verify"}}

InitFault ==
    /\ flash \in FaultPages
    /\ beyond \in BeyondVals
    /\ cr = Locked
    /\ last_valid_index = 0
    /\ hist = [writes |-> 0, boot |-> flash, cut |-> FALSE, loaded |-> None]
    /\ InitRest

\* writer.write_config(m), its Result kept by the caller
FaultWriteConfig(m, hw) ==
    /\ hist.writes < MaxFaultOps
    /\ StoreWriteConfig(m, hw)

\* writer.write_default().unwrap()
FaultWriteDefault(hw) ==
    /\ power = "on"
    /\ hist.writes < MaxFaultOps
    /\ LET r == write_default(flash, cr, last_valid_index, hw) IN
       /\ flash' = r.flash
       /\ cr' = r.cr
       /\ last_valid_index' = r.lvi
       /\ power' = IF r.res = "Ok" THEN "on" ELSE "panic"
       /\ last' = [op |-> "write_default", m |-> None, hw |-> hw,
                   res |-> r.res, lvi0 |-> last_valid_index]
    /\ hist' = [hist EXCEPT !.writes = @ + 1]
    /\ UNCHANGED otherVars

\* The half-words of an entry written before the supply fails
CutPoints == 1..((CONFIG_SIZE \div 2) - 1)

\* ConfigWriter::write stopped by the loss of the supply after k half-words
\* of data went through its loop
write_cut(f, c, start, data, k) ==
    IF ~valid_range(start, Len(data)) \/ Len(data) % 2 # 0
    THEN [res |-> "WrongRange", flash |-> f]
    ELSE write_from(f, unlock(c, "none").cr, start, SubSeq(data, 1, 2 * k),
                    0, "none", 0)

\* The page left by write_config(m) when the supply fails inside its call of
\* write; the erase of the page-full branch has completed by then
write_config_cut(f, c, lvi, m, k) ==
    LET config == matrix_to_config(m) IN
    IF lvi + 1 < CONFIGS_IN_PAGE
    THEN IF Rd8(f, SlotAddr(lvi + 1)) # 255
         THEN [res |-> "FlashNotErased", flash |-> f]
         ELSE write_cut(f, c, SlotAddr(lvi + 1), config, k)
    ELSE LET e == erase_page(f, c, "none", 0) IN
         IF e.res # "Ok" THEN [res |-> e.res, flash |-> e.flash]
         ELSE write_cut(e.flash, e.cr, CONFIG_ADD, config, k)

\* Power is lost inside writer.write_config(m); RAM and the flash controller
\* come back in their reset state
FaultPowerLoss(m, k) ==
    /\ power = "on"
    /\ hist.writes < MaxFaultOps
    /\ LET r == write_config_cut(flash, cr, last_valid_index, m, k) IN
       /\ r.res = "Ok"
       /\ flash' = r.flash
       /\ hist' = [writes |-> hist.writes + 1, boot |-> r.flash, cut |-> TRUE,
                   loaded |-> get_config(flash, last_valid_index)]
    /\ cr' = Locked
    /\ last_valid_index' = 0
    /\ power' = "off"
    /\ last' = [op |-> "power_loss", m |-> Some(m), hw |-> NoFault,
                res |-> "none", lvi0 |-> last_valid_index]
    /\ UNCHANGED otherVars

NextFault ==
    \/ \E hw \in FaultCases : StoreNew(hw)
    \/ \E m \in StoreMaps, hw \in FaultCases : FaultWriteConfig(m, hw)
    \/ \E hw \in FaultCases : FaultWriteDefault(hw)
    \/ \E m \in StoreMaps, k \in CutPoints : FaultPowerLoss(m, k)

SpecFault == InitFault /\ [][NextFault]_vars

\* C17: once ConfigWriter::new has returned Ok and no panic has followed,
\* every slot up to last_valid_index starts with the magic byte, also after
\* a write_config that returned an error.
C17_MagicPrefix ==
    (power = "on") =>
        \A i \in 0..last_valid_index : Rd8(flash, SlotAddr(i)) = MAGIC

\* C18: in every state of the store, the slot after last_valid_index, when
\* there is one, starts with the erased byte 0xFF; this covers the state
\* left by ConfigWriter::new and by a write_config that failed part-way.
C18_NextSlotErased ==
    (power = "on" /\ last_valid_index + 1 < CONFIGS_IN_PAGE) =>
        Rd8(flash, SlotAddr(last_valid_index + 1)) = ERASED

\* The last slot of the longest run of magic-prefixed slots from slot 0 on
MagicRun(f) ==
    CHOOSE n \in 0..(CONFIGS_IN_PAGE - 1) :
        /\ \A i \in 0..n : f[SlotAddr(i)] = MAGIC
        /\ n = CONFIGS_IN_PAGE - 1 \/ f[SlotAddr(n + 1)] # MAGIC

\* C19: on a page whose slot 0 lacks the magic, ConfigWriter::new leaves an
\* erased page with the entry [0x55, 4, 5, 6] in slot 0, last_valid_index 0
\* and get_config = [A, B, C]; on any other page it changes no byte and sets
\* last_valid_index to the end of the run of magic-prefixed slots; either
\* way last_valid_index < K.
C19_OpenPostCondition ==
    (last.op = "new" /\ last.hw = NoFault) =>
        /\ last.res = "Ok"
        /\ last_valid_index < CONFIGS_IN_PAGE
        /\ IF hist.boot[CONFIG_ADD] # MAGIC
           THEN /\ SlotBytes(flash, 0) = <<MAGIC, KeyCode_A, KeyCode_B, KeyCode_C>>
                /\ \A a \in PageAddrs : a >= SlotAddr(1) => flash[a] = ERASED
                /\ last_valid_index = 0
                /\ get_config(flash, last_valid_index)
                      = Some(<<KeyCode_A, KeyCode_B, KeyCode_C>>)
           ELSE /\ flash = hist.boot
                /\ last_valid_index = MagicRun(hist.boot)

\* C20: when power is lost after some but not all half-words of a new entry
\* were programmed, the next boot ignores that entry: ConfigWriter::new
\* followed by get_config returns the mapping that was loaded before the
\* interrupted write.
C20_PowerLossIgnored ==
    (last.op = "new" /\ last.res = "Ok" /\ hist.cut /\ hist.loaded # None) =>
        get_config(flash, last_valid_index) = hist.loaded

----------------------------------------------------------------------------
(* Boot on pages whose last committed entry may hold a damaged payload *)

\* Bytes that are no usage code: erased, the gap between the zones, past zone 2
CorruptBytes == {ERASED, ZONE1_LAST + 1, ZONE2_LAST + 1}

\* n committed entries, byte k of the payload of the last one replaced by b
CorruptPage(n, k, b) ==
    [FilledPage(n, Matrix_new) EXCEPT ![SlotAddr(n - 1) + k] = b]

BootFills == {1, 2, CONFIGS_IN_PAGE - 1}

BootPages ==
    {CorruptPage(n, k, b) : n \in BootFills, k \in 1..NUM_BTS, b \in CorruptBytes}
    \cup {FilledPage(n, m) : n \in BootFills, m \in StoreMaps}

InitBoot ==
    /\ flash \in BootPages
    /\ beyond \in BeyondVals
    /\ cr = Locked
    /\ last_valid_index = 0
    /\ hist = [NoHist EXCEPT !.cycles = MaxCycles]
    /\ InitRest

NextBoot ==
    \/ SysInit(NoFault)
    \/ PowerCycle

SpecBoot == InitBoot /\ [][NextBoot]_vars

\* The last committed slot of page f has the magic and a payload byte that is
\* no usage code
CorruptLast(f) ==
    /\ f[CONFIG_ADD] = MAGIC
    /\ \E k \in 1..NUM_BTS : InvalidCode(f[SlotAddr(MagicRun(f)) + k])

\* C21: a boot that finds the magic but a payload byte outside the two zones
\* in the slot at last_valid_index gets None from get_config, runs with the
\* factory default mapping [A, B, C], and changes no flash byte;
\* last_valid_index stays on that slot.
C21_CorruptedPayloadAtBoot ==
    [][(power = "off" /\ power' # "off" /\ CorruptLast(flash)) =>
          /\ power' = "on"
          /\ last'.loaded = None
          /\ layout' = <<KeyCode_A, KeyCode_B, KeyCode_C>>
          /\ flash' = flash
          /\ last_valid_index' = MagicRun(flash)]_vars

C21_Witness ==
    /\ power = "on"
    /\ last.op = "init"
    /\ last.loaded = None
    /\ CorruptLast(flash)
    /\ flash[SlotAddr(last_valid_index) + 2] = ERASED
    /\ layout = Matrix_new

----------------------------------------------------------------------------
(* The scan task applying host commands while the flash hardware may fail *)

\* Faults that can show in applying a command: only Save reaches the flash
SaveFaults(command) == IF command.cmd = "Save" THEN FaultCases ELSE {NoFault}

ApplyPages == {FilledPage(1, Matrix_new), SpoiltPage(1)}

InitApply ==
    /\ flash \in ApplyPages
    /\ beyond \in BeyondVals
    /\ cr = Locked
    /\ last_valid_index = 0
    /\ hist = [NoHist EXCEPT !.script = ScriptSave]
    /\ InitRest

NextApply ==
    \/ SysInit(NoFault)
    \/ ScanTick
    \/ ScanDequeueLoad
    \/ ScanDequeueRead
    \/ ScanDequeueCommit
    \/ /\ pc = "apply"
       /\ \E hw \in SaveFaults(loc.cmd[1]) : ScanApply(hw)
    \/ /\ pc = "recover"
       /\ \E hw \in FaultCases, hw2 \in SaveFaults(loc.cmd[1]) :
             /\ hw = NoFault \/ hw2 = NoFault
             /\ ScanRecover(hw, hw2)
    \/ \E data \in HostNext(hist) : UsbControlOut(CtrlReq, data)

SpecApply == InitApply /\ [][NextApply]_vars

FlashErrors ==
    {"UnlockError", "VerificationError", "EraseError", "ProgrammingError",
     "WrongRange", "FlashNotErased"}

\* C22: when applying a dequeued command returns a flash error other than
\* FlashNotErased, the firmware panics; nothing runs after a panic, so no
\* further command or tick is processed.
C22_OtherFlashErrorsFatal ==
    (last.op = "apply" /\ last.res \in FlashErrors \ {"FlashNotErased"}) =>
        power = "panic"

\* C23: when applying Save returns FlashNotErased the scan task goes on to
\* write_default and one retry of the same command; when both succeed slot 0
\* holds the factory-default entry, slot 1 the mapping in RAM,
\* last_valid_index is 1 and the mapping in RAM is what it was; when either
\* fails the firmware panics.
C23_NotErasedRecovery ==
    /\ [][(pc = "apply" /\ last'.op = "apply") =>
             ((last'.res = "FlashNotErased") <=> (pc' = "recover"))]_vars
    /\ [][(pc = "recover" /\ pc' # "recover") =>
             /\ last'.op = "recover"
             /\ last'.cmd.cmd = "Save"
             /\ \/ /\ last'.res = "Ok"
                   /\ power' = "on"
                   /\ SlotBytes(flash', 0) = <<MAGIC, KeyCode_A, KeyCode_B, KeyCode_C>>
                   /\ SlotBytes(flash', 1) = <<MAGIC, layout[1], layout[2], layout[3]>>
                   /\ last_valid_index' = 1
                   /\ layout' = layout
                \/ /\ last'.res # "Ok"
                   /\ power' = "panic"]_vars

C23_Witness ==
    /\ last.op = "recover"
    /\ last.res = "Ok"
    /\ power = "on"
    /\ last_valid_index = 1
    /\ layout = <<KeyCode_Space, KeyCode_B, KeyCode_C>>
    /\ SlotBytes(flash, 1) = <<MAGIC, KeyCode_Space, KeyCode_B, KeyCode_C>>

\* a recovery that ended in a panic because the retry failed
C23_WitnessRetryFails ==
    /\ last.op = "recover"
    /\ last.res = "ProgrammingError"
    /\ power = "panic"
    /\ SlotBytes(flash, 0) = <<MAGIC, KeyCode_A, KeyCode_B, KeyCode_C>>

\* C24: after every return of ConfigWriter::new, write_default and
\* write_config, Ok or any FlashError, the lock bit of the flash controller
\* is set and its erase-enable and program-enable bits are clear.
C24_FlashLockedAfterStoreOps ==
    (last.op \in {"new", "write_config", "write_default"}) =>
        (last.res \in FlashErrors \cup {"Ok"} /\ cr.lock /\ ~cr.per /\ ~cr.pg)

C24_Witness ==
    /\ last.op = "write_config"
    /\ last.res = "VerificationError"
    /\ last.lvi0 = CONFIGS_IN_PAGE - 1
    /\ last.hw.wr = "verify"
    /\ cr = Locked

\* C25: applying SetSlot(i, code) sets mapping[i] to code and leaves the
\* other two slots of the mapping, every flash byte and last_valid_index as
\* they were; a power cycle of a session in which SetSlots were applied and
\* no Save reached the scan task then loads the mapping the boot before had
\* loaded from flash.
C25_SetSlotDoesNotPersist ==
    /\ [][(pc = "apply" /\ last'.op = "apply" /\ loc.cmd[1].cmd # "Save") =>
             /\ layout' = [layout EXCEPT ![SetIndex(loc.cmd[1])] = loc.cmd[1].key]
             /\ flash' = flash
             /\ last_valid_index' = last_valid_index
             /\ last'.res = "Ok"]_vars
    /\ []((/\ last.op = "init"
           /\ hist.prev # None
           /\ hist.prev[1].applied # <<>>
           /\ \A i \in 1..Len(hist.prev[1].enq) :
                 hist.prev[1].enq[i].cmd # "Save")
          => /\ power = "on"
             /\ layout = hist.prev[1].boot.layout
             /\ last_valid_index = hist.prev[1].boot.lvi)

\* SetSlot(0, Space) was applied, power was cycled before any Save, and the
\* boot loaded [A, B, C] again
C25_Witness ==
    /\ last.op = "init"
    /\ hist.prev # None
    /\ hist.prev[1].enq = hist.prev[1].applied
    /\ hist.prev[1].applied = <<[cmd |-> "Set1", key |-> KeyCode_Space]>>
    /\ power = "on"
    /\ layout = Matrix_new

----------------------------------------------------------------------------
(* Matrix::to_bytes and Matrix::from_bytes on their own *)

\* Usage codes at the edges of the two zones, and one inside
EdgeCodes == {ZONE1_FIRST, KeyCode_A, ZONE1_LAST, ZONE2_FIRST, ZONE2_LAST}

\* Bytes at, next to and far from the edges of the zones
EdgeBytes == EdgeCodes \cup {ZONE1_LAST + 1, ZONE2_FIRST - 1, ZONE2_LAST + 1, ERASED}

MatrixMaps == [1..NUM_BTS -> EdgeCodes]
MatrixBytes == [1..NUM_BTS -> EdgeBytes]

InitMatrix ==
    /\ flash = ErasedPage
    /\ beyond = ERASED
    /\ cr = Locked
    /\ last_valid_index = 0
    /\ hist = NoHist
    /\ power = "on"
    /\ layout \in MatrixMaps
    /\ q_buf = EmptyQueue
    /\ q_head = 0
    /\ q_tail = 0
    /\ pc = "idle"
    /\ loc = IdleLoc
    /\ btn = [i \in 0..(NUM_BTS - 1) |-> "UnPressed"]
    /\ report = KbHidReport_new
    /\ expect_interrupt_in_complete = FALSE
    /\ ep_tx = <<>>
    /\ ep_enabled = FALSE
    /\ host_rx = <<>>
    /\ last = NoOp

matrixRest == <<flash, beyond, cr, last_valid_index, power, q_buf, q_head,
                q_tail, pc, loc, btn, report, expect_interrupt_in_complete,
                ep_tx, ep_enabled, host_rx, hist>>

\* matrix.to_bytes(), as matrix_to_config calls it
MatrixToBytes ==
    /\ last.op # "to_bytes"
    /\ last' = [op |-> "to_bytes", m |-> layout,
                bytes |-> Matrix_to_bytes(layout), out |-> None]
    /\ UNCHANGED <<layout, matrixRest>>

\* Matrix::from_bytes on the bytes to_bytes gave
MatrixFromBytes ==
    /\ last.op = "to_bytes"
    /\ last' = [op |-> "from_bytes", m |-> last.m, bytes |-> last.bytes,
                out |-> Matrix_from_bytes(last.bytes)]
    /\ UNCHANGED <<layout, matrixRest>>

\* Matrix::from_bytes on any three bytes, as get_config calls it, followed by
\* init's unwrap_or_else(Matrix::new)
MatrixParse(bytes) ==
    /\ last.op = "none"
    /\ LET out == Matrix_from_bytes(bytes) IN
       /\ last' = [op |-> "parse", m |-> None, bytes |-> bytes, out |-> out]
       /\ layout' = IF out # None THEN out[1] ELSE Matrix_new
    /\ UNCHANGED matrixRest

NextMatrix ==
    \/ MatrixToBytes
    \/ MatrixFromBytes
    \/ \E bytes \in MatrixBytes : MatrixParse(bytes)

SpecMatrix == InitMatrix /\ [][NextMatrix]_vars

\* C26: for every mapping m of three valid usage codes,
\* Matrix::from_bytes(m.to_bytes()) is Some(m).
C26_SerializationRoundTrip ==
    (last.op = "from_bytes") =>
        /\ \A i \in 1..NUM_BTS : last.m[i] \in (ZONE1_FIRST..ZONE1_LAST) \cup (ZONE2_FIRST..ZONE2_LAST)
        /\ last.out = Some(last.m)

C26_Witness ==
    /\ last.op = "from_bytes"
    /\ last.m = <<ZONE2_LAST, ZONE1_LAST, ZONE2_FIRST>>
    /\ last.bytes = <<251, 164, 224>>
    /\ last.out = Some(<<ZONE2_LAST, ZONE1_LAST, ZONE2_FIRST>>)

\* A byte outside both zones
OutsideZones(b) ==
    ~(\/ (ZONE1_FIRST <= b /\ b <= ZONE1_LAST)
      \/ (ZONE2_FIRST <= b /\ b <= ZONE2_LAST))

\* C27: Matrix::from_bytes returns None exactly when one of the three bytes
\* lies outside both zones, and otherwise the mapping made of the bytes; a
\* byte ZONE1_LAST + 1 in any position is rejected and the four zone edges
\* are accepted.
C27_ByteValidation ==
    (last.op = "parse") =>
        /\ (last.out = None) <=> (\E i \in 1..NUM_BTS : OutsideZones(last.bytes[i]))
        /\ (last.out # None) => (last.out = Some(last.bytes) /\ layout = last.bytes)
        /\ (\E i \in 1..NUM_BTS : last.bytes[i] = ZONE1_LAST + 1) => last.out = None
        /\ (\A i \in 1..NUM_BTS :
               last.bytes[i] \in {ZONE1_FIRST, ZONE1_LAST, ZONE2_FIRST, ZONE2_LAST})
              => last.out # None

\* the gap byte in the last position, edges in the others
C27_Witness ==
    /\ last.op = "parse"
    /\ last.bytes = <<ZONE1_LAST, ZONE2_FIRST, ZONE1_LAST + 1>>
    /\ last.out = None

\* the edges of the zones, accepted
C27_WitnessEdges ==
    /\ last.op = "parse"
    /\ last.bytes = <<ZONE1_FIRST, ZONE1_LAST, ZONE2_LAST>>
    /\ last.out = Some(<<ZONE1_FIRST, ZONE1_LAST, ZONE2_LAST>>)

----------------------------------------------------------------------------
(* The host utility talking to the control interface, host/src/app.rs *)

\* `command as u8` of a VendorCommand
VendorCommand_as_u8(command) ==
    CASE command = "Set1" -> 1
      [] command = "Set2" -> 2
      [] command = "Set3" -> 3
      [] command = "Save" -> 4
      [] OTHER -> 70

\* rusb::request_type(Direction::Out, RequestType::Vendor, Recipient::Device),
\* as the device stack decodes it
App_request_type == [request_type |-> "Vendor", recipient |-> "Device"]

\* usb_handle.write_control(request_type, request, value, index, buf, ..):
\* the setup packet and the data stage that reach control_out
write_control(rt, request, value, index, buf) ==
    [req |-> [request_type |-> rt.request_type, recipient |-> rt.recipient,
              request |-> request, value |-> value % 65536, index |-> index],
     data |-> buf]

\* App::send_selected(command) with `key` the selected hit
App_send_selected(command, key) ==
    write_control(App_request_type, VendorCommand_as_u8(command), key % 256, 0, <<>>)

\* App::save_config()
App_save_config ==
    write_control(App_request_type, VendorCommand_as_u8("Save"), 0, 0, <<>>)

\* Keys the user selects in the utility
HostKeys == {KeyCode_A, KeyCode_Space, ZONE1_LAST, ZONE2_FIRST, ZONE2_LAST}
HostSets == {"Set1", "Set2", "Set3"}

\* The same commands sent as the control-interface protocol documents them
DocTransfers ==
    {[req |-> CtrlReq, data |-> <<VendorCommand_as_u8(c), k>>] :
        c \in HostSets, k \in HostKeys}
    \cup {[req |-> CtrlReq, data |-> <<VendorCommand_as_u8("Save"), 0>>]}

\* The user picks a key for a button and presses enter
HostSendSelected(command, key) ==
    LET t == App_send_selected(command, key) IN UsbControlOut(t.req, t.data)

\* The user presses s
HostSaveConfig ==
    LET t == App_save_config IN UsbControlOut(t.req, t.data)

NextHost ==
    \/ CtrlNew
    \/ \E c \in HostSets, k \in HostKeys : HostSendSelected(c, k)
    \/ HostSaveConfig
    \/ /\ hist.sent < MaxCtrlCmds
       /\ \E x \in DocTransfers : UsbControlOut(x.req, x.data)
    \/ CtrlDequeue

SpecHost == InitCtrl /\ [][NextHost]_vars

\* Transfers the utility can issue
HostTransfers ==
    {App_send_selected(c, k) : c \in HostSets, k \in HostKeys} \cup {App_save_config}

\* C28: every transfer the host utility issues is a class-type,
\* interface-recipient SetReport on control interface 1 with the two-byte
\* payload [cmd, value], and is accepted by control_out and enqueued as that
\* command (unless the queue is full).
C28_HostDeviceAgreement ==
    (last.op = "control_out"
        /\ [req |-> last.req, data |-> last.data] \in HostTransfers) =>
        /\ last.req.request_type = "Class"
        /\ last.req.recipient = "Interface"
        /\ last.req.index = CTRL_INTERFACE
        /\ Request_new(last.req.request) = Some("SetReport")
        /\ Len(last.data) = 2
        /\ Len(last.q0) < QUEUE_CAP => last.accepted

----------------------------------------------------------------------------
(* ConfigWriter::write on its own, given any destination and byte count *)

MaxRangeOps == 2

\* Destinations below, at the start of, inside, and at the end of the page
RangeStarts ==
    {CONFIG_ADD - 2, CONFIG_ADD, CONFIG_ADD + CONFIG_SIZE,
     FLASH_END - CONFIG_SIZE, FLASH_END - 2, FLASH_END}
RangeLengths == 1..CONFIG_SIZE
RangeData(n) == [i \in 1..n |-> i]

InitRange ==
    /\ flash = ErasedPage
    /\ beyond \in BeyondVals
    /\ cr = Locked
    /\ last_valid_index = 0
    /\ hist = [writes |-> 0]
    /\ InitRest

\* self.write(start, data) with no hardware fault
RangeWrite(start, n) ==
    /\ hist.writes < MaxRangeOps
    /\ LET w == write(flash, cr, start, RangeData(n), "none", 0) IN
       /\ flash' = w.flash
       /\ cr' = w.cr
       /\ last' = [op |-> "write", m |-> None, hw |-> NoFault, res |-> w.res,
                   lvi0 |-> last_valid_index, start |-> start, length |-> n]
    /\ hist' = [hist EXCEPT !.writes = @ + 1]
    /\ UNCHANGED <<otherVars, power, last_valid_index>>

NextRange == \E start \in RangeStarts, n \in RangeLengths : RangeWrite(start, n)

SpecRange == InitRange /\ [][NextRange]_vars

\* C29: ConfigWriter::write returns WrongRange exactly when the byte count is
\* odd or the range [start, start + len) is not inside [CONFIG_ADD,
\* FLASH_END); an even-length range that ends at FLASH_END is accepted.
C29_WriteRangeCheck ==
    (last.op = "write") =>
        ((last.res = "WrongRange") <=>
            \/ last.length % 2 # 0
            \/ ~(CONFIG_ADD <= last.start /\ last.start + last.length <= FLASH_END))

----------------------------------------------------------------------------
(* Task priorities: the scan task with the steps inside keyboard.lock and
   inside a flash operation told apart, and the USB task preempting it
   wherever its priority is above the running one *)

SCAN_PRIORITY == 2
USB_PRIORITY == 3

\* Ceiling of the resource `keyboard`: the highest priority of a task that
\* lists it
KeyboardCeiling ==
    IF USB_PRIORITY > SCAN_PRIORITY THEN USB_PRIORITY ELSE SCAN_PRIORITY

\* A lock that leaves the running priority at the task's own
CurrentPriority_unraised(p) == IF p = "idle" THEN 0 ELSE SCAN_PRIORITY

\* The priority the core runs at, by the position of the scan task: idle
\* loop, inside keyboard.lock, anywhere else in debouncer_task
CurrentPriority(p) ==
    IF p = "idle" THEN 0
    ELSE IF p = "send_locked" THEN KeyboardCeiling
    ELSE SCAN_PRIORITY

\* The USB interrupt is taken only above the running priority
UsbMayRun == USB_PRIORITY > CurrentPriority(pc)

\* keyboard.lock entered: shared.set_keyboard_report(report.clone())
PrioSendEnter ==
    /\ power = "on"
    /\ pc = "send"
    /\ LET sr == set_keyboard_report(report, loc.report) IN
       /\ report' = sr.report
       /\ pc' = IF sr.changed THEN "send_locked" ELSE "dequeue"
       /\ last' = [op |-> "lock_set_report", changed |-> sr.changed]
    /\ UNCHANGED <<flash, beyond, cr, last_valid_index, power, layout, q_buf,
                   q_head, q_tail, loc, btn, expect_interrupt_in_complete,
                   ep_tx, ep_enabled, host_rx, hist>>

\* still inside keyboard.lock: shared.write(report.as_bytes()), then the
\* lock is left
PrioSendWrite ==
    /\ power = "on"
    /\ pc = "send_locked"
    /\ \E epres \in EpWriteOutcomes(ep_tx, loc.report) :
         LET w == Keykey_write(expect_interrupt_in_complete, loc.report, epres) IN
         /\ expect_interrupt_in_complete' = w.flag
         /\ ep_tx' = IF w.queued THEN Some(loc.report) ELSE ep_tx
         /\ last' = [op |-> "lock_write", report |-> loc.report,
                     ret |-> w.ret, queued |-> w.queued]
    /\ pc' = "dequeue"
    /\ UNCHANGED <<flash, beyond, cr, last_valid_index, power, layout, q_buf,
                   q_head, q_tail, loc, btn, report, ep_enabled, host_rx, hist>>

\* update_layout(Save) has entered write_config and waits on the busy flag
PrioFlashStart ==
    /\ power = "on"
    /\ pc = "apply"
    /\ loc.cmd[1].cmd = "Save"
    /\ pc' = "flash_busy"
    /\ last' = [op |-> "flash_start"]
    /\ UNCHANGED <<flash, beyond, cr, last_valid_index, power, layout, q_buf,
                   q_head, q_tail, loc, btn, report,
                   expect_interrupt_in_complete, ep_tx, ep_enabled, host_rx,
                   hist>>

\* write_config returns and debouncer_task looks at the result
PrioFlashEnd(hw) ==
    /\ power = "on"
    /\ pc = "flash_busy"
    /\ LET r == update_layout(layout, loc.cmd[1], flash, cr, last_valid_index, hw) IN
       /\ layout' = r.layout
       /\ flash' = r.flash
       /\ cr' = r.cr
       /\ last_valid_index' = r.lvi
       /\ IF r.res = "FlashNotErased"
          THEN /\ pc' = "recover"
               /\ loc' = loc
               /\ hist' = hist
          ELSE /\ pc' = "idle"
               /\ loc' = IdleLoc
               /\ hist' = [hist EXCEPT !.applied = Append(@, loc.cmd[1])]
       /\ last' = [op |-> "apply", cmd |-> loc.cmd[1], hw |-> hw, res |-> r.res,
                   lvi0 |-> last_valid_index]
    /\ UNCHANGED <<beyond, power, q_buf, q_head, q_tail, btn, report,
                   expect_interrupt_in_complete, ep_tx, ep_enabled, host_rx>>

\* A GetReport for the keyboard interface
GetReportReq ==
    InRequest("Class", "Interface", 1, 256, KEY_INTERFACE, REPORT_LEN)

PrioPages == {FilledPage(1, Matrix_new), SpoiltPage(1)}

InitPrio ==
    /\ flash \in PrioPages
    /\ beyond = ERASED
    /\ cr = Locked
    /\ last_valid_index = 0
    /\ hist = [NoHist EXCEPT !.script = ScriptSave, !.btns = 1, !.usb = MaxUsb]
    /\ InitRest

NextPrio ==
    \/ SysInit(NoFault)
    \/ ScanTick
    \/ PrioSendEnter
    \/ PrioSendWrite
    \/ ScanDequeueLoad
    \/ ScanDequeueRead
    \/ ScanDequeueCommit
    \/ /\ pc = "apply"
       /\ loc.cmd[1].cmd # "Save"
       /\ ScanApply(NoFault)
    \/ PrioFlashStart
    \/ PrioFlashEnd(NoFault)
    \/ ScanRecover(NoFault, NoFault)
    \/ /\ UsbMayRun
       /\ \E data \in HostNext(hist) : UsbControlOut(CtrlReq, data)
    \/ /\ UsbMayRun
       /\ \E addr \in {KEY_EP, DUMMY_EP} : UsbEndpointInComplete(addr)
    \/ /\ UsbMayRun
       /\ UsbReset
    \/ /\ UsbMayRun
       /\ last.op # "control_in"
       /\ UsbControlIn(GetReportReq)

SpecPrio == InitPrio /\ [][NextPrio]_vars

UsbOps == {"control_out", "control_in", "endpoint_in_complete", "reset"}

\* C30: once the scan task has called set_keyboard_report inside
\* keyboard.lock, the next step is the write of the same tick: no
\* endpoint_in_complete, reset, control_in or control_out comes in between.
\* Elsewhere in the scan task the USB task does run.
C30_CriticalSection ==
    /\ [][(pc = "send_locked") =>
             (last'.op = "lock_write" /\ last'.op \notin UsbOps /\ pc' = "dequeue")]_vars
    /\ []((power = "on" /\ pc # "send_locked") => UsbMayRun)

\* a control transfer handled while the scan task is inside a flash write
C30_Witness ==
    /\ pc = "flash_busy"
    /\ last.op \in UsbOps
    /\ hist.usb = 0
    /\ report # KbHidReport_new

----------------------------------------------------------------------------
(* Which bytes a write_config may touch *)

\* C31: a write_config made while a next slot exists (last_valid_index + 1
\* < K), whatever it returns, erases nothing: the bytes of slots
\* 0..last_valid_index are unchanged, no byte outside the next slot changes
\* and no programmed byte goes back to another value; the page is only
\* erased by a write_config made with last_valid_index + 1 = K.
C31_EraseOnlyWhenExhausted ==
    [][(power = "on" /\ last'.op = "write_config"
           /\ last_valid_index + 1 < CONFIGS_IN_PAGE) =>
          /\ \A i \in 0..last_valid_index :
                 SlotBytes(flash', i) = SlotBytes(flash, i)
          /\ \A a \in PageAddrs :
                 (flash'[a] # flash[a]) =>
                     /\ flash[a] = ERASED
                     /\ a \in SlotAddr(last_valid_index + 1)
                              ..(SlotAddr(last_valid_index + 1) + CONFIG_SIZE - 1)]_vars

\* an entry appended after slot 0, slot 0 still holding its entry
C31_Witness ==
    /\ last.op = "write_config"
    /\ last.res = "Ok"
    /\ last.lvi0 = 0
    /\ last_valid_index = 1
    /\ SlotBytes(flash, 0) = matrix_to_config(Matrix_new)
    /\ SlotBytes(flash, 1) = matrix_to_config(<<KeyCode_Space, KeyCode_B, KeyCode_C>>)

\* an append that failed after its first half-word
C31_WitnessFailed ==
    /\ last.op = "write_config"
    /\ last.res = "VerificationError"
    /\ last.lvi0 = 0
    /\ last_valid_index = 0
    /\ SlotBytes(flash, 0) = matrix_to_config(Matrix_new)
    /\ flash[SlotAddr(1)] = MAGIC

\* the page erased by a write_config made on the last slot
C31_WitnessErase ==
    /\ last.op = "write_config"
    /\ last.res = "Ok"
    /\ last.lvi0 = CONFIGS_IN_PAGE - 1
    /\ last_valid_index = 0
    /\ flash[SlotAddr(1)] = ERASED

\* C32: a write_config made while a next slot exists whose first byte is not
\* 0xFF returns FlashNotErased and leaves every flash byte, the control
\* register and last_valid_index as they were; the flash is not unlocked and
\* nothing is programmed or erased, so the result is FlashNotErased also
\* when the controller would refuse the unlock, the erase or the programming.
C32_NotErasedLeavesStore ==
    [][(power = "on" /\ last'.op = "write_config"
           /\ last_valid_index + 1 < CONFIGS_IN_PAGE
           /\ Rd8(flash, SlotAddr(last_valid_index + 1)) # ERASED) =>
          /\ last'.res = "FlashNotErased"
          /\ flash' = flash
          /\ cr' = cr
          /\ last_valid_index' = last_valid_index]_vars

\* FlashNotErased returned on a spoilt slot 1 while the controller would have
\* refused the key sequence
C32_Witness ==
    /\ last.op = "write_config"
    /\ last.res = "FlashNotErased"
    /\ last.hw.wr = "unlock"
    /\ flash = SpoiltPage(1)
    /\ last_valid_index = 0
    /\ cr = Locked
    /\ power = "on"

----------------------------------------------------------------------------
(* The key search of the host utility, host/src/app.rs and software/src/app.rs.
   Characters are ASCII codes, strings are sequences of them. *)

\* characters of one search string
MaxInputLen == 3

\* char::is_ascii_alphanumeric
is_ascii_alphanumeric(ch) == ch \in (48..57) \cup (65..90) \cup (97..122)

\* char::make_ascii_lowercase
make_ascii_lowercase(ch) == IF ch \in 65..90 THEN ch + 32 ELSE ch

\* str::starts_with
starts_with(str, prefix) ==
    Len(prefix) <= Len(str) /\ SubSeq(str, 1, Len(prefix)) = prefix

\* usize::saturating_sub
saturating_sub(a, b) == IF a > b THEN a - b ELSE 0

\* KeyCode::iter(): the variants the tests name, in the order of the
\* enumeration, among A, B, C and Space
KeyCode_iter == <<"A", "B", "C", "Space", "Application", "Again", "AltErase">>

\* k.as_ref(): the name of the variant in lower case
KeyCode_as_ref(k) ==
    CASE k = "A" -> <<97>>
      [] k = "B" -> <<98>>
      [] k = "C" -> <<99>>
      [] k = "Space" -> <<115, 112, 97, 99, 101>>
      [] k = "Application" -> <<97, 112, 112, 108, 105, 99, 97, 116, 105, 111, 110>>
      [] k = "Again" -> <<97, 103, 97, 105, 110>>
      [] k = "AltErase" -> <<97, 108, 116, 101, 114, 97, 115, 101>>

\* `if self.current_line + 1 > self.hits.len() { .. }`
clamp_line(app) ==
    IF app.current_line + 1 > Len(app.hits)
    THEN [app EXCEPT !.current_line = saturating_sub(Len(app.hits), 1)]
    ELSE app

\* The loop of App::search_all from position i of the enumeration on
RECURSIVE search_from(_, _, _)
search_from(input, i, hits) ==
    IF i > Len(KeyCode_iter) THEN hits
    ELSE search_from(input, i + 1,
             IF starts_with(KeyCode_as_ref(KeyCode_iter[i]), input)
             THEN Append(hits, KeyCode_iter[i]) ELSE hits)

\* App::search_all
App_search_all(app) ==
    clamp_line([app EXCEPT !.hits = search_from(app.user_input, 1, <<>>)])

\* App::new
App_new ==
    App_search_all([current_line |-> 0, user_input |-> <<>>, hits |-> <<>>])

\* App::push_char_hit
App_push_char_hit(app, new) ==
    IF ~is_ascii_alphanumeric(new) THEN app
    ELSE
      LET input == Append(app.user_input, make_ascii_lowercase(new))
          keeps(k) == starts_with(KeyCode_as_ref(k), input)
      IN clamp_line([app EXCEPT !.user_input = input,
                                !.hits = SelectSeq(app.hits, keeps)])

\* A backspace that drops the last character and keeps the list
App_backspace_pop_only(app) ==
    IF app.user_input # <<>>
    THEN [app EXCEPT !.user_input = SubSeq(@, 1, Len(@) - 1)]
    ELSE app

\* App::backspace
App_backspace(app) ==
    IF app.user_input # <<>>
    THEN App_search_all([app EXCEPT !.user_input = SubSeq(@, 1, Len(@) - 1)])
    ELSE app

\* App::up
App_up(app) == [app EXCEPT !.current_line = saturating_sub(@, 1)]

\* App::down
App_down(app) ==
    IF app.current_line + 1 < Len(app.hits)
    THEN [app EXCEPT !.current_line = @ + 1]
    ELSE app

\* App::clear
App_clear(app) == App_search_all([app EXCEPT !.user_input = <<>>])

\* Characters the user types: a, g, s, P, 1, - and the space bar
TypedChars == {97, 103, 115, 80, 49, 45, 32}

InitSearch ==
    /\ flash = ErasedPage
    /\ beyond = ERASED
    /\ cr = Locked
    /\ last_valid_index = 0
    /\ hist = App_new
    /\ InitRest

searchRest == <<flash, beyond, cr, last_valid_index, power, layout, q_buf,
                q_head, q_tail, pc, loc, btn, report,
                expect_interrupt_in_complete, ep_tx, ep_enabled, host_rx>>

\* One key event handled by the utility
SearchStep(op, ch, app) ==
    /\ hist' = app
    /\ last' = [op |-> op, ch |-> ch, app0 |-> hist]
    /\ UNCHANGED searchRest

SearchPush(ch) ==
    /\ Len(hist.user_input) < MaxInputLen
    /\ SearchStep("push_char_hit", ch, App_push_char_hit(hist, ch))

SearchBackspace == SearchStep("backspace", 0, App_backspace(hist))

SearchUp == SearchStep("up", 0, App_up(hist))

SearchDown == SearchStep("down", 0, App_down(hist))

SearchClear == SearchStep("clear", 0, App_clear(hist))

NextSearch ==
    \/ \E ch \in TypedChars : SearchPush(ch)
    \/ SearchBackspace
    \/ SearchUp
    \/ SearchDown
    \/ SearchClear

SpecSearch == InitSearch /\ [][NextSearch]_vars

\* Position of a key code in the enumeration
IterIndex(k) == CHOOSE i \in 1..Len(KeyCode_iter) : KeyCode_iter[i] = k

\* hits lists, in enumeration order and once each, the key codes whose name
\* starts with input
IsHitList(hits, input) ==
    /\ {hits[i] : i \in 1..Len(hits)}
          = {KeyCode_iter[i] : i \in {j \in 1..Len(KeyCode_iter) :
                 starts_with(KeyCode_as_ref(KeyCode_iter[j]), input)}}
    /\ \A i, j \in 1..Len(hits) : i < j => IterIndex(hits[i]) < IterIndex(hits[j])

\* C33: after any sequence of push_char_hit, backspace, up and down (and
\* clear), hits is the list, in enumeration order, of the key codes whose
\* lower-case name starts with user_input, and current_line is an index of
\* hits, or 0 when hits is empty; user_input holds the alphanumeric
\* characters typed, in lower case, other characters change nothing; and a
\* backspace right after a push_char_hit of an alphanumeric character gives
\* back the hit list of before that push.
C33_HostSearchList ==
    /\ [](/\ IsHitList(hist.hits, hist.user_input)
          /\ hist.current_line < Len(hist.hits)
                \/ (hist.hits = <<>> /\ hist.current_line = 0)
          /\ \A i \in 1..Len(hist.user_input) :
                hist.user_input[i] \in (48..57) \cup (97..122))
    /\ [][/\ (last'.op = "push_char_hit" /\ last'.ch \notin (48..57) \cup (65..90) \cup (97..122))
               => hist' = hist
          /\ (last'.op = "push_char_hit" /\ last'.ch \in 65..90)
               => hist'.user_input = Append(hist.user_input, last'.ch + 32)
          /\ (last'.op = "push_char_hit" /\ last'.ch \in (48..57) \cup (97..122))
               => hist'.user_input = Append(hist.user_input, last'.ch)
          /\ (last.op = "push_char_hit" /\ hist # last.app0 /\ last'.op = "backspace")
               => hist'.hits = last.app0.hits]_vars

\* "aP" typed, then backspace: Application alone, then the four hits of "a"
\* again, the selected line still at 0 after it was clamped
C33_Witness ==
    /\ last.op = "backspace"
    /\ last.app0.user_input = <<97, 112>>
    /\ last.app0.hits = <<"Application">>
    /\ hist.user_input = <<97>>
    /\ hist.hits = <<"A", "Application", "Again", "AltErase">>
    /\ hist.current_line = 0

\* no hit at all: the selected line is 0
C33_WitnessEmpty ==
    /\ last.op = "push_char_hit"
    /\ last.app0.current_line = 3
    /\ hist.user_input = <<97, 49>>
    /\ hist.hits = <<>>
    /\ hist.current_line = 0

----------------------------------------------------------------------------
(* The backpressure flag against what the endpoint holds *)

\* C34: expect_interrupt_in_complete is only set for a transfer that was
\* queued: a Keykey::write whose endpoint write returns WouldBlock or an
\* error leaves the flag clear, so whenever the flag is set a packet is in
\* flight on the keyboard endpoint and its completion will clear the flag.
C34_FlagOnlyWhenQueued ==
    /\ expect_interrupt_in_complete => ep_tx # <<>>
    /\ (last.op = "write" /\ ~last.flag0 /\ ~last.queued) =>
           ~expect_interrupt_in_complete

----------------------------------------------------------------------------
(* Key presses against a host that has enumerated the device and takes every
   report queued on the keyboard endpoint *)

InitLive ==
    /\ flash = FilledPage(1, Matrix_new)
    /\ beyond = ERASED
    /\ cr = Locked
    /\ last_valid_index = 0
    /\ hist = [NoHist EXCEPT !.btns = MaxEdges, !.usb = 1]
    /\ InitRest

\* debouncer_task from the timer interrupt to its return; keys are touched
\* once the bus is configured, and no command is sent, so that the dequeue
\* finds Q empty
ScanTask ==
    \/ ep_enabled /\ ScanTick
    \/ ScanSend
    \/ ScanDequeueLoad

\* The host resets the bus once, after init
HostEnumerates == ~ep_enabled /\ UsbReset

\* The host polls the keyboard endpoint
HostPolls == UsbEndpointInComplete(KEY_EP)

NextLive ==
    \/ SysInit(NoFault)
    \/ HostEnumerates
    \/ ScanTask
    \/ HostPolls

\* init runs, the timer keeps firing and the scan task runs to its end, the
\* host enumerates the device and completes every interrupt-IN transfer
SpecLive ==
    /\ InitLive
    /\ [][NextLive]_vars
    /\ WF_vars(SysInit(NoFault))
    /\ WF_vars(HostEnumerates)
    /\ WF_vars(ScanTask)
    /\ WF_vars(HostPolls)

\* The host holds the report of the present key state: the one composed from
\* btn and layout, or none yet while no key was ever down
HostSeesKeys ==
    LET composed == Matrix_update(layout, btn) IN
    \/ host_rx = Some(composed)
    \/ host_rx = <<>> /\ composed = KbHidReport_new

\* C35: with both tasks scheduled fairly and a host that completes every
\* interrupt-IN transfer, once the debounced button states and the mapping
\* have stopped changing the last report the host received is, from some
\* point on, the report composed from that final state.
C35_FinalStateSeen == <>[](power = "on" /\ HostSeesKeys)

----------------------------------------------------------------------------
(* The reads of the verification loop of erase_page *)

\* The addresses at which the loop `for address in CONFIG_ADD..CONFIG_ADD +
\* PAGE_SIZE` of erase_page reads a u16: none when the erase did not get that
\* far, else every address up to the first that does not read 0xFFFF
erase_page_reads(f, c, fault, at) ==
    IF unlock(c, fault).res # "Ok" \/ fault = "wrprt" THEN {}
    ELSE
      LET f2 == HwErase(f, fault, at)
          range == CONFIG_ADD..(CONFIG_ADD + PAGE_SIZE - 1)
          bad == {address \in range : Rd16(f2, address) # 65535}
      IN IF bad = {} THEN range
         ELSE {address \in range : \A b \in bad : address <= b}

\* The store operation op, called on page f with index lvi, calls erase_page
CallsErase(op, f, lvi) ==
    \/ op = "new" /\ Rd8(f, CONFIG_ADD) # MAGIC
    \/ op = "write_default"
    \/ op = "write_config" /\ ~(lvi + 1 < CONFIGS_IN_PAGE)

\* C36: every read of the verification loop of erase_page is a 16-bit read
\* of a half-word that lies within [CONFIG_ADD, CONFIG_ADD + PAGE_SIZE), so
\* no read touches FLASH_END or beyond; and when the erase itself went well
\* every half-word of the page is read.
C36_EraseVerifyInsidePage ==
    [][(CallsErase(last'.op, flash, last_valid_index)
          /\ (last'.op = "new" => power = "off")) =>
         LET reads == erase_page_reads(flash, cr, last'.hw.er, last'.hw.at) IN
         /\ \A address \in reads :
               /\ CONFIG_ADD <= address
               /\ address + 1 < CONFIG_ADD + PAGE_SIZE
         /\ (last'.hw.er = "none") =>
               \A k \in 0..((PAGE_SIZE \div 2) - 1) : CONFIG_ADD + 2 * k \in reads]_vars

----------------------------------------------------------------------------
(* Which interface a GetReport is matched against *)

\* C37: a (Class, Interface) GetReport whose 16-bit request.index is neither
\* 0 (keyboard) nor 1 (control), such as 0x0100 or 0x0101, is not for this
\* class: Keykey neither accepts nor rejects it, as control_out does with a
\* SetReport carrying such an index.
C37_FullIndexMatch ==
    (/\ last.op = "control_in"
     /\ last.req.request_type = "Class"
     /\ last.req.recipient = "Interface"
     /\ Request_new(last.req.request) = Some("GetReport")
     /\ last.req.index \notin {KEY_INTERFACE, CTRL_INTERFACE})
    => last.outcome = "none"

====
